---------------------------- MODULE Spec2Model ----------------------------
(***************************************************************************)
(* GitBeat music generation adapter (imbjdd/gitbeat, mcp-server).          *)
(*                                                                         *)
(* The model follows one inbound call at a time through one of the three   *)
(* entry points of the repository                                          *)
(*   - gitbeat_mcp/server.py   call_tool          (facade "server")        *)
(*   - gitbeat_mcp/tools.py    handle_tool_call   (facade "tools")         *)
(*   - api.py                  the FastAPI routes (facade "rest")          *)
(* down to the single outbound HTTP request of ElevenLabsService, where    *)
(* the call is suspended, and back up through the response formatters.     *)
(*                                                                         *)
(* Representation of Python values                                         *)
(*   - a str is a sequence of tokens; "" is << >>; an f-string is the      *)
(*     concatenation of its pieces, so "text embeds e" is checkable;       *)
(*   - a value that may be None is tagged: PyNone, PyStr(s), PyInt(i),     *)
(*     PyList(l);                                                          *)
(*   - a dict is a function whose DOMAIN is the set of keys present;       *)
(*   - bytes are sequences of integers 0..255.                             *)
(***************************************************************************)
EXTENDS Integers, Sequences, FiniteSets, TLC

VARIABLES
    config,     \* the process-wide MCPServerConfig instance (config.py:59)
    pc,         \* "idle" | "awaiting" (suspended at the HTTP call) | "returned"
    call,       \* the inbound call being handled: facade, name, arguments
    service,    \* the per-call ElevenLabsService instance, or PyNone
    pending,    \* the outbound request awaiting its response, or PyNone
    sent,       \* the outbound HTTP requests issued for the current call
    upstream,   \* what came back from upstream: a response or an exception
    svcResult,  \* the result record the service operation returned, or PyNone
    reply,      \* what the entry point returned to its caller, or PyNone
    sseState,   \* the event-stream connection: "NoConnection" | "Connected" |
                \* "Initialized" | "Serving" | "Closed"
    sseLoop,    \* where the liveness task stands: "send" | "sleep"
    sseEvents,  \* the events emitted on the event-stream connection
    peerConnected,  \* whether the peer of the event stream is still there
    now,        \* the clock, in seconds
    rpcSeen,    \* the methods of the one-shot envelopes handled so far
    tasks,      \* the requests handled concurrently: per coroutine its
                \* position, call, service instance, request and results
    started     \* how many concurrently handled requests have begun

\* the state of the inbound call being handled
callVars == <<config, pc, call, service, pending, sent, upstream, svcResult, reply>>

\* the state of the event-stream connection and its clock
sseVars == <<sseState, sseLoop, sseEvents, peerConnected, now>>

\* the coroutines of concurrently handled requests
concVars == <<tasks, started>>

vars == <<config, pc, call, service, pending, sent, upstream, svcResult, reply,
          sseState, sseLoop, sseEvents, peerConnected, now, rpcSeen, tasks, started>>

---------------------------------------------------------------------------
(* Python values *)

PyNone == [t |-> "none"]
PyStr(s) == [t |-> "str", v |-> s]
PyInt(i) == [t |-> "int", v |-> i]
PyList(l) == [t |-> "list", v |-> l]
PyBool(b) == [t |-> "bool", v |-> b]

\* Python truthiness of a tagged value: None, "", 0 and [] are falsy.
Truthy(x) ==
    CASE x.t = "none" -> FALSE
      [] x.t = "str"  -> x.v # << >>
      [] x.t = "int"  -> x.v # 0
      [] x.t = "list" -> x.v # << >>
      [] x.t = "bool" -> x.v
      [] OTHER        -> TRUE

\* x or y
Or(x, y) == IF Truthy(x) THEN x ELSE y

\* dict.get(key, default)
Get(d, key, default) == IF key \in DOMAIN d THEN d[key] ELSE default

\* str(x) for the values that are interpolated into f-strings
StrOf(x) ==
    CASE x.t = "none" -> <<"None">>
      [] x.t = "str"  -> x.v
      [] x.t = "int"  -> <<ToString(x.v)>>
      [] OTHER        -> <<"<object>">>

\* e occurs in text as a contiguous run of tokens
Embeds(text, e) ==
    \E i \in 0..(Len(text) - Len(e)) : SubSeq(text, i + 1, i + Len(e)) = e

---------------------------------------------------------------------------
(* Bounds of the model *)

\* the clock advances at most MaxTicks times, by one ping interval each
MaxTicks == 4

\* at most MaxConcurrent requests are in progress at the same time
MaxConcurrent == 2
\* of the requests handled concurrently, at most MaxRequests begin
MaxRequests == 2

\* requested durations reach up to MaxDurationInput seconds
MaxDurationInput == 31
\* raw response bodies are byte strings of at most MaxBytes bytes
MaxBytes == 3

---------------------------------------------------------------------------
(* config.py: the settings the service reads *)

\* Field(default=10) and Field(default=30): neither is read from the environment
default_duration == 10
max_duration == 30
\* "ElevenLabs requires minimum 10 seconds for music"
MusicFloor == 10
\* "Default 5 seconds for sound effects"
SoundDefaultDuration == 5

\* ELEVENLABS_API_KEY of the environment: unset/empty, or a default key
ConfigKeys == {<< >>, <<"cfgkey">>}

MCPServerConfig(key) ==
    [elevenlabs_api_key |-> key,
     default_duration   |-> default_duration,
     max_duration       |-> max_duration]

---------------------------------------------------------------------------
(* base64, as the standard library computes it *)

B64Alphabet ==
    << "A","B","C","D","E","F","G","H","I","J","K","L","M","N","O","P",
       "Q","R","S","T","U","V","W","X","Y","Z","a","b","c","d","e","f",
       "g","h","i","j","k","l","m","n","o","p","q","r","s","t","u","v",
       "w","x","y","z","0","1","2","3","4","5","6","7","8","9","+","/" >>

B64Char(i) == B64Alphabet[i + 1]

\* the 6-bit value of a character, 64 for a character outside the alphabet
B64Index(c) ==
    IF \E i \in 1..64 : B64Alphabet[i] = c
    THEN (CHOOSE i \in 1..64 : B64Alphabet[i] = c) - 1
    ELSE 64

\* characters str.encode("ascii") rejects
NonAscii == {"\\u00e9"}

\* B64Encode without the "=" padding of a final partial group
RECURSIVE B64EncodeWithoutPadding(_)
B64EncodeWithoutPadding(b) ==
    IF Len(b) = 0 THEN << >>
    ELSE IF Len(b) = 1 THEN
        << B64Char(b[1] \div 4), B64Char((b[1] % 4) * 16) >>
    ELSE IF Len(b) = 2 THEN
        << B64Char(b[1] \div 4),
           B64Char((b[1] % 4) * 16 + (b[2] \div 16)),
           B64Char((b[2] % 16) * 4) >>
    ELSE
        << B64Char(b[1] \div 4),
           B64Char((b[1] % 4) * 16 + (b[2] \div 16)),
           B64Char((b[2] % 16) * 4 + (b[3] \div 64)),
           B64Char(b[3] % 64) >> \o B64EncodeWithoutPadding(SubSeq(b, 4, Len(b)))

\* base64.b64encode(bytes).decode("utf-8")
RECURSIVE B64Encode(_)
B64Encode(b) ==
    IF Len(b) = 0 THEN << >>
    ELSE IF Len(b) = 1 THEN
        << B64Char(b[1] \div 4), B64Char((b[1] % 4) * 16), "=", "=" >>
    ELSE IF Len(b) = 2 THEN
        << B64Char(b[1] \div 4),
           B64Char((b[1] % 4) * 16 + (b[2] \div 16)),
           B64Char((b[2] % 16) * 4), "=" >>
    ELSE
        << B64Char(b[1] \div 4),
           B64Char((b[1] % 4) * 16 + (b[2] \div 16)),
           B64Char((b[2] % 16) * 4 + (b[3] \div 64)),
           B64Char(b[3] % 64) >> \o B64Encode(SubSeq(b, 4, Len(b)))

\* binascii.a2b_base64 in its default, non-strict mode: characters outside
\* the alphabet are skipped, a complete pad run ends the input, and a
\* dangling quad raises binascii.Error.
RECURSIVE A2BBase64(_, _, _, _, _, _)
A2BBase64(s, i, quad_pos, leftchar, pads, out) ==
    IF i > Len(s) THEN
        IF quad_pos = 0 THEN [ok |-> TRUE, bytes |-> out]
        ELSE IF quad_pos = 1
             THEN [ok |-> FALSE, exc |-> <<"Invalid base64-encoded string">>]
             ELSE [ok |-> FALSE, exc |-> <<"Incorrect padding">>]
    ELSE IF s[i] = "=" THEN
        IF quad_pos >= 2 /\ quad_pos + pads + 1 >= 4
        THEN [ok |-> TRUE, bytes |-> out]
        ELSE A2BBase64(s, i + 1, quad_pos, leftchar,
                       IF quad_pos >= 2 THEN pads + 1 ELSE pads, out)
    ELSE LET c == B64Index(s[i]) IN
        IF c >= 64 THEN A2BBase64(s, i + 1, quad_pos, leftchar, pads, out)
        ELSE CASE quad_pos = 0 ->
                    A2BBase64(s, i + 1, 1, c, 0, out)
               [] quad_pos = 1 ->
                    A2BBase64(s, i + 1, 2, c % 16, 0,
                              Append(out, leftchar * 4 + (c \div 16)))
               [] quad_pos = 2 ->
                    A2BBase64(s, i + 1, 3, c % 4, 0,
                              Append(out, leftchar * 16 + (c \div 4)))
               [] OTHER ->
                    A2BBase64(s, i + 1, 0, 0, 0,
                              Append(out, leftchar * 64 + c))

\* base64.b64decode(str): ValueError on a non-ASCII character
B64Decode(s) ==
    IF \E i \in 1..Len(s) : s[i] \in NonAscii
    THEN [ok |-> FALSE,
          exc |-> <<"string argument should contain only ASCII characters">>]
    ELSE A2BBase64(s, 1, 0, 0, 0, << >>)

---------------------------------------------------------------------------
(* Upstream responses: what the third-party API may answer *)

PyBytes(b) == [t |-> "bytes", v |-> b]

ByteVals == {0, 255}
RawBytes == UNION {[1..n -> ByteVals] : n \in 0..MaxBytes}

\* composition plans of a detailed response: dicts with a "sections" list
Sections ==
    { << >>,
      << [section_name |-> <<"Verse">>, lines |-> << <<"la">>, <<"li">> >>] >>,
      << [section_name |-> <<"Verse">>, lines |-> << <<"la">> >>],
         [lines |-> << <<"lo">> >>],
         [section_name |-> <<"Outro">>, lines |-> << >>] >>,
      << [section_name |-> <<"Verse">>, lines |-> << <<"la">> >>],
         [section_name |-> <<"Bridge">>, lines |-> << >>],
         [section_name |-> <<"Chorus">>, lines |-> << <<"lo">>, <<"li">> >>] >> }

CompositionPlans == {[sections |-> s] : s \in Sections}

\* the "audio" member of a JSON body: absent, or a JSON string, number,
\* null, boolean, array
AudioStrings == { << >>, <<"A","A","E","C">>, <<"/","w","=","=">>, <<"A">> }
AudioValues ==
    {PyStr(a) : a \in AudioStrings}
    \cup {PyInt(7), PyNone, PyBool(TRUE), PyList(<< >>)}

Models ==
    { << >>,
      << [name |-> <<"Eleven v2">>, model_id |-> <<"eleven_v2">>,
          description |-> <<"Multilingual">>] >> }

\* JSON objects, as dicts keyed by the members present
JsonObjects ==
    { << >> }
    \cup {[audio |-> a] : a \in AudioValues}
    \cup {[audio |-> PyStr(<<"A","A","E","C">>), composition_plan |-> c] :
              c \in CompositionPlans}
    \cup {[models |-> PyList(m)] : m \in Models}
    \cup {[models |-> PyNone], [models |-> PyInt(3)],
          [detail |-> PyStr(<<"invalid_api_key">>)]}

\* JSON documents that are neither an object nor an array: 5 and null
JsonScalars == {PyInt(5), PyNone}

\* A body is raw bytes that do not parse as JSON, or a JSON document; content
\* is response.content (for a JSON document, the bytes of "{}", "[]" or "5"
\* stand for its serialised text).
Bodies ==
    {[kind |-> "raw", content |-> b] : b \in RawBytes}
    \cup {[kind |-> "object", content |-> <<123, 125>>, fields |-> o] :
              o \in JsonObjects}
    \cup {[kind |-> "array", content |-> <<91, 93>>, items |-> m] : m \in Models}
    \cup {[kind |-> "scalar", content |-> <<53>>, value |-> v] : v \in JsonScalars}

\* the bodies sent with an error status: raw text, a JSON error detail, and
\* a JSON body that carries an audio member all the same
ErrorBodies ==
    {b \in Bodies :
        \/ b.kind = "raw"
        \/ b.kind = "object" /\ DOMAIN b.fields \in {{"detail"}, {"audio"}}
                             /\ Truthy(Get(b.fields, "audio", PyStr(<<"x">>)))}

ErrorStatusCodes == {401, 500}
Responses ==
    {[status_code |-> 200, body |-> b] : b \in Bodies}
    \cup {[status_code |-> c, body |-> b] : c \in ErrorStatusCodes, b \in ErrorBodies}

\* str(e) of the exceptions httpx raises for a transport fault
TransportErrors == {<<"ConnectError: connection reset">>, <<"ReadTimeout">>}

\* response.text: the body decoded, one token per byte
BytesText(b) == [i \in 1..Len(b) |-> ToString(b[i])]

\* f"{response.json()}" when the body parses, else response.text
ErrorDetail(body) ==
    CASE body.kind = "object" -> <<"{json object}">>
      [] body.kind = "array"  -> <<"[json array]">>
      [] body.kind = "scalar" -> StrOf(body.value)
      [] OTHER                -> BytesText(body.content)

---------------------------------------------------------------------------
(* ElevenLabsService: gitbeat_mcp/elevenlabs_service.py ("mcp") and the    *)
(* copy in api.py ("rest")                                                 *)

Ok(v) == [ok |-> TRUE, val |-> v]
Raise(type, text) == [ok |-> FALSE, type |-> type, exc |-> text]

\* NewService with the fallback turned round: the configured default key is
\* taken first, the key of the request only when none is configured
NewServicePreferringConfig(impl, api_key) ==
    LET key == Or(PyStr(config.elevenlabs_api_key), api_key)
    IN IF ~Truthy(key)
       THEN Raise("ValueError", <<"ElevenLabs API key is required">>)
       ELSE Ok([impl |-> impl, api_key |-> key])

\* ElevenLabsService.__init__
NewService(impl, api_key) ==
    LET key == IF impl = "mcp"
               THEN Or(api_key, PyStr(config.elevenlabs_api_key))
               ELSE api_key
    IN IF ~Truthy(key)
       THEN Raise("ValueError",
                  IF impl = "mcp"
                  THEN <<"ElevenLabs API key is required. Please provide it in the request.">>
                  ELSE <<"ElevenLabs API key is required">>)
       ELSE Ok([impl |-> impl, api_key |-> key])

\* ElevenLabsService._get_headers
GetHeaders(svc) ==
    [xi_api_key |-> svc.api_key, content_type |-> "application/json"]

HttpRequest(svc, op, method, path, json, timeout, locals) ==
    [op |-> op, method |-> method, path |-> path, headers |-> GetHeaders(svc),
     json |-> json, timeout |-> timeout, locals |-> locals]

\* test_connection and get_available_models: GET /v1/models, 10 s
TestConnectionRequest(svc) ==
    HttpRequest(svc, "test_connection", "GET", "/v1/models", PyNone, 10, << >>)

GetModelsRequest(svc) ==
    HttpRequest(svc, "get_available_models", "GET", "/v1/models", PyNone, 10, << >>)

\* NormalizeDuration without the "if duration_seconds < 10" clamp
NormalizeDurationWithoutFloor(duration_seconds) ==
    LET d0 == Or(duration_seconds, PyInt(config.default_duration)).v
    IN  IF d0 > config.max_duration THEN config.max_duration ELSE d0

\* elevenlabs_service.py generate_music: the duration sent upstream
NormalizeDuration(duration_seconds) ==
    LET d0 == Or(duration_seconds, PyInt(config.default_duration)).v
        d1 == IF d0 < MusicFloor THEN MusicFloor ELSE d0
    IN  IF d1 > config.max_duration THEN config.max_duration ELSE d1

\* elevenlabs_service.py generate_music, up to the POST
McpMusicRequest(svc, prompt, duration_seconds) ==
    LET d == NormalizeDuration(duration_seconds)
    IN  HttpRequest(svc, "generate_music", "POST", "/v1/music/detailed",
                    [prompt |-> prompt, music_length_ms |-> d * 1000], 60,
                    [prompt |-> prompt, duration_seconds |-> PyInt(d)])

\* StyleSettings holding every hint that was given, empty ones included
StyleSettingsOfGivenHints(hints) ==
    [k \in {h \in DOMAIN hints : hints[h] # PyNone} |-> hints[k]]

\* api.py generate_music: the style block holds the non-empty hints
StyleSettings(hints) ==
    [k \in {h \in DOMAIN hints : Truthy(hints[h])} |-> hints[k]]

\* api.py generate_music: the JSON body of the POST
RestMusicBody(prompt, duration_seconds, composition_mode, hints) ==
    LET base  == [prompt |-> prompt, music_length_ms |-> duration_seconds.v * 1000]
        style == StyleSettings(hints)
    IN  IF ~Truthy(composition_mode) THEN base
        ELSE IF DOMAIN style = {}
             THEN [prompt |-> base.prompt, music_length_ms |-> base.music_length_ms,
                   composition_mode |-> TRUE]
             ELSE [prompt |-> base.prompt, music_length_ms |-> base.music_length_ms,
                   composition_mode |-> TRUE, style_settings |-> style]

\* api.py generate_music, up to the POST; None * 1000 raises TypeError
RestMusicRequest(svc, prompt, duration_seconds, composition_mode, hints) ==
    IF duration_seconds.t # "int"
    THEN Raise("TypeError", <<"unsupported operand type(s) for *">>)
    ELSE Ok(HttpRequest(svc, "generate_music", "POST", "/v1/music/detailed",
                    RestMusicBody(prompt, duration_seconds, composition_mode, hints),
                    60,
                    [prompt |-> prompt, duration_seconds |-> duration_seconds]))

\* generate_sound_effect, up to the POST
SoundRequest(svc, prompt, duration_seconds) ==
    LET d == IF svc.impl = "mcp"
             THEN Or(duration_seconds, PyInt(SoundDefaultDuration))
             ELSE duration_seconds
    IN  HttpRequest(svc, "generate_sound_effect", "POST", "/v1/sound-generation",
                    [text |-> prompt, duration_seconds |-> d], 60,
                    [prompt |-> prompt, duration_seconds |-> d])

---------------------------------------------------------------------------
(* ElevenLabsService: from the upstream outcome to the result record *)

\* what the awaited HTTP call produced
Responded(resp) == [kind |-> "response", response |-> resp]
Failed(text) == [kind |-> "exception", exc |-> text]

EmptyDict == [k \in {} |-> PyNone]

\* "\n".join(lines)
RECURSIVE JoinLines(_)
JoinLines(lines) ==
    IF Len(lines) = 0 THEN << >>
    ELSE IF Len(lines) = 1 THEN lines[1]
    ELSE lines[1] \o <<"\n">> \o JoinLines(Tail(lines))

\* SectionLyrics with the header written for every named section, whether
\* or not it has lines
RECURSIVE SectionLyricsHeaderForEverySection(_)
SectionLyricsHeaderForEverySection(sections) ==
    IF Len(sections) = 0 THEN << >>
    ELSE LET section      == Head(sections)
             lines        == Get(section, "lines", << >>)
             section_name == Get(section, "section_name", << >>)
             header       == IF section_name # << >>
                             THEN <<"[">> \o section_name \o <<"]", "\n">>
                             ELSE << >>
         IN  header
             \o (IF lines # << >>
                 THEN JoinLines(lines) \o <<"\n", "\n">>
                 ELSE << >>)
             \o SectionLyricsHeaderForEverySection(Tail(sections))

\* the loop over composition_plan["sections"]
RECURSIVE SectionLyrics(_)
SectionLyrics(sections) ==
    IF Len(sections) = 0 THEN << >>
    ELSE LET section      == Head(sections)
             lines        == Get(section, "lines", << >>)
             section_name == Get(section, "section_name", << >>)
             header       == IF section_name # << >>
                             THEN <<"[">> \o section_name \o <<"]", "\n">>
                             ELSE << >>
         IN  (IF lines # << >>
              THEN header \o JoinLines(lines) \o <<"\n", "\n">>
              ELSE << >>)
             \o SectionLyrics(Tail(sections))

\* lyrics of a parsed detailed response
ExtractLyrics(composition_plan) ==
    IF DOMAIN composition_plan = {} THEN << >>
    ELSE SectionLyrics(Get(composition_plan, "sections", << >>))

\* f"music_{timestamp}_{unique_id}.mp3": the clock and the uuid are opaque
Filename(prefix) == <<prefix, "<timestamp>", "_", "<uuid8>", ".mp3">>

\* the audio of a 200 music response: the "audio" member of the JSON body, or
\* the whole body when it does not parse
MusicAudio(body) ==
    CASE body.kind = "raw" -> Ok(B64Encode(body.content))
      [] body.kind = "object" ->
            LET audio_data == Get(body.fields, "audio", PyBytes(<< >>))
            IN  IF audio_data.t = "str" THEN Ok(audio_data.v)
                ELSE IF audio_data.t = "bytes" THEN Ok(B64Encode(audio_data.v))
                ELSE Raise("TypeError", <<"a bytes-like object is required">>)
      [] OTHER -> Raise("AttributeError", <<"object has no attribute 'get'">>)

\* len(base64.b64decode(audio_base64)) if audio_base64 else 0
MusicFileSize(audio_base64) ==
    IF audio_base64 = << >> THEN Ok(0)
    ELSE LET d == B64Decode(audio_base64)
         IN  IF d.ok THEN Ok(Len(d.bytes)) ELSE Raise("binascii.Error", d.exc)

\* generate_music, the 200 branch
MusicSuccess(impl, locals, body) ==
    LET audio == MusicAudio(body)
        size  == MusicFileSize(audio.val)
        plan  == IF body.kind = "object"
                 THEN Get(body.fields, "composition_plan", EmptyDict)
                 ELSE EmptyDict
        meta  == IF body.kind = "object"
                 THEN Get(body.fields, "song_metadata", EmptyDict)
                 ELSE EmptyDict
    IN  IF ~audio.ok THEN audio
        ELSE IF ~size.ok THEN size
        ELSE IF impl = "mcp"
        THEN Ok([success |-> TRUE,
                     audio_base64 |-> audio.val,
                     duration_seconds |-> locals.duration_seconds,
                     prompt |-> locals.prompt,
                     filename |-> Filename("music_"),
                     file_size |-> size.val,
                     mime_type |-> <<"audio/mpeg">>])
        ELSE Ok([success |-> TRUE,
                     audio_base64 |-> audio.val,
                     filename |-> Filename("music_"),
                     file_size |-> size.val,
                     duration_seconds |-> locals.duration_seconds,
                     prompt |-> locals.prompt,
                     mime_type |-> <<"audio/mpeg">>,
                     lyrics |-> ExtractLyrics(plan),
                     composition_plan |-> plan,
                     song_metadata |-> meta])

\* HttpErrorMessage without the status code in the string
HttpErrorMessageWithoutStatus(what, resp) ==
    <<what, " - ">> \o ErrorDetail(resp.body)

\* the error string of a non-200 generation response
HttpErrorMessage(what, resp) ==
    <<what, ToString(resp.status_code), " - ">> \o ErrorDetail(resp.body)

\* GenerateMusicResult without the outer except: what the 200 branch raises
\* reaches the caller
GenerateMusicResultWithoutExcept(impl, locals, outcome) ==
    IF outcome.kind = "exception"
    THEN [success |-> FALSE, error |-> outcome.exc]
    ELSE IF outcome.response.status_code = 200
    THEN LET r == MusicSuccess(impl, locals, outcome.response.body)
         IN  IF r.ok THEN r.val ELSE r
    ELSE [success |-> FALSE,
          error |-> HttpErrorMessage("Music generation failed: HTTP ", outcome.response)]

\* generate_music, from the awaited POST on
GenerateMusicResult(impl, locals, outcome) ==
    IF outcome.kind = "exception"
    THEN [success |-> FALSE, error |-> outcome.exc]
    ELSE IF outcome.response.status_code = 200
    THEN LET r == MusicSuccess(impl, locals, outcome.response.body)
         IN  IF r.ok THEN r.val ELSE [success |-> FALSE, error |-> r.exc]
    ELSE [success |-> FALSE,
          error |-> HttpErrorMessage("Music generation failed: HTTP ", outcome.response)]

\* GenerateSoundResult with an except branch that drops str(e)
GenerateSoundResultDroppingException(impl, locals, outcome) ==
    IF outcome.kind = "exception"
    THEN [success |-> FALSE, error |-> <<"Sound generation failed">>]
    ELSE IF outcome.response.status_code = 200
    THEN LET audio_data == outcome.response.body.content
         IN  [success |-> TRUE,
              audio_base64 |-> B64Encode(audio_data),
              filename |-> Filename("sound_"),
              file_size |-> Len(audio_data),
              duration_seconds |-> locals.duration_seconds,
              prompt |-> locals.prompt,
              mime_type |-> <<"audio/mpeg">>]
    ELSE [success |-> FALSE,
          error |-> <<"Sound generation failed: HTTP ",
                      ToString(outcome.response.status_code), " - ">>
                    \o ErrorDetail(outcome.response.body)]

\* GenerateSoundResult with file_size taken from the encoded string
GenerateSoundResultSizeOfEncoding(impl, locals, outcome) ==
    IF outcome.kind = "exception"
    THEN [success |-> FALSE, error |-> outcome.exc]
    ELSE IF outcome.response.status_code = 200
    THEN LET audio_data == outcome.response.body.content
         IN  [success |-> TRUE,
              audio_base64 |-> B64Encode(audio_data),
              filename |-> Filename("sound_"),
              file_size |-> Len(B64Encode(audio_data)),
              duration_seconds |-> locals.duration_seconds,
              prompt |-> locals.prompt,
              mime_type |-> <<"audio/mpeg">>]
    ELSE [success |-> FALSE,
          error |-> <<"Sound generation failed: HTTP ",
                      ToString(outcome.response.status_code), " - ">>
                    \o ErrorDetail(outcome.response.body)]

\* generate_sound_effect, from the awaited POST on
GenerateSoundResult(impl, locals, outcome) ==
    IF outcome.kind = "exception"
    THEN [success |-> FALSE, error |-> outcome.exc]
    ELSE IF outcome.response.status_code = 200
    THEN LET audio_data == outcome.response.body.content
         IN  [success |-> TRUE,
              audio_base64 |-> B64Encode(audio_data),
              filename |-> Filename("sound_"),
              file_size |-> Len(audio_data),
              duration_seconds |-> locals.duration_seconds,
              prompt |-> locals.prompt,
              mime_type |-> <<"audio/mpeg">>]
    ELSE [success |-> FALSE,
          error |-> HttpErrorMessage("Sound generation failed: HTTP ", outcome.response)]

\* test_connection, from the awaited GET on
TestConnectionResult(outcome) ==
    IF outcome.kind = "exception"
    THEN [success |-> FALSE, message |-> <<"Connection error: ">> \o outcome.exc]
    ELSE IF outcome.response.status_code = 200
    THEN [success |-> TRUE, message |-> <<"Connection successful">>]
    ELSE [success |-> FALSE,
          message |-> <<"API test failed: ", ToString(outcome.response.status_code)>>]

\* ModelsList that takes a list from an array body only: the "models" member
\* of an object body is not looked at
ModelsListOfArraysOnly(body) ==
    CASE body.kind = "raw"   -> Raise("JSONDecodeError", <<"Expecting value">>)
      [] body.kind = "array" -> Ok(PyList(body.items))
      [] body.kind = "scalar" ->
            Raise("AttributeError", <<"object has no attribute 'get'">>)
      [] OTHER -> Ok(PyList(<< >>))

\* models_data if isinstance(models_data, list) else models_data.get('models', []),
\* then len(models_list) for the log line
ModelsList(body) ==
    CASE body.kind = "raw"   -> Raise("JSONDecodeError", <<"Expecting value">>)
      [] body.kind = "array" -> Ok(PyList(body.items))
      [] body.kind = "scalar" ->
            Raise("AttributeError", <<"object has no attribute 'get'">>)
      [] OTHER ->
            LET m == Get(body.fields, "models", PyList(<< >>))
            IN  IF m.t \in {"list", "str"} THEN Ok(m)
                ELSE Raise("TypeError", <<"object has no len()">>)

\* get_available_models, from the awaited GET on
GetModelsResult(outcome) ==
    IF outcome.kind = "exception"
    THEN [success |-> FALSE, error |-> outcome.exc]
    ELSE IF outcome.response.status_code = 200
    THEN LET r == ModelsList(outcome.response.body)
         IN  IF r.ok THEN [success |-> TRUE, models |-> r.val]
             ELSE [success |-> FALSE, error |-> r.exc]
    ELSE [success |-> FALSE,
          error |-> <<"HTTP ", ToString(outcome.response.status_code)>>]

\* the service operation resumed with the outcome of its HTTP call
ServiceResult(svc, request, outcome) ==
    CASE request.op = "generate_music" ->
            GenerateMusicResult(svc.impl, request.locals, outcome)
      [] request.op = "generate_sound_effect" ->
            GenerateSoundResult(svc.impl, request.locals, outcome)
      [] request.op = "test_connection" -> TestConnectionResult(outcome)
      [] OTHER -> GetModelsResult(outcome)

---------------------------------------------------------------------------
(* gitbeat_mcp/tools.py: the tool catalog and the response formatters *)

\* the names get_tool_definitions declares
ToolNames ==
    {"generate_music", "generate_sound_effect", "test_elevenlabs_connection",
     "get_available_models", "get_music_examples"}

\* GetToolDefinitions without the last Tool(...) of the list
GetToolDefinitionsWithoutExamples ==
    << [name |-> "generate_music",
        properties |-> {"prompt", "duration_seconds", "prompt_influence",
                        "elevenlabs_api_key"},
        required |-> <<"prompt", "elevenlabs_api_key">>],
       [name |-> "generate_sound_effect",
        properties |-> {"prompt", "duration_seconds", "elevenlabs_api_key"},
        required |-> <<"prompt", "elevenlabs_api_key">>],
       [name |-> "test_elevenlabs_connection",
        properties |-> {"elevenlabs_api_key"},
        required |-> <<"elevenlabs_api_key">>],
       [name |-> "get_available_models",
        properties |-> {"elevenlabs_api_key"},
        required |-> <<"elevenlabs_api_key">>] >>

\* get_tool_definitions: the list is built anew by every call; of each
\* inputSchema the property names and the "required" list are kept
GetToolDefinitions ==
    << [name |-> "generate_music",
        properties |-> {"prompt", "duration_seconds", "prompt_influence",
                        "elevenlabs_api_key"},
        required |-> <<"prompt", "elevenlabs_api_key">>],
       [name |-> "generate_sound_effect",
        properties |-> {"prompt", "duration_seconds", "elevenlabs_api_key"},
        required |-> <<"prompt", "elevenlabs_api_key">>],
       [name |-> "test_elevenlabs_connection",
        properties |-> {"elevenlabs_api_key"},
        required |-> <<"elevenlabs_api_key">>],
       [name |-> "get_available_models",
        properties |-> {"elevenlabs_api_key"},
        required |-> <<"elevenlabs_api_key">>],
       [name |-> "get_music_examples",
        properties |-> {},
        required |-> << >>] >>

TextContent(text) == [type |-> "text", text |-> text]

\* result.get("success"): None, which is falsy, when the member is missing
GetSuccess(result) == "success" \in DOMAIN result /\ result.success

\* get_example_prompts
ExamplePrompts ==
    [music_examples |->
        << <<"A cheerful upbeat electronic dance music track with synthesizers">>,
           <<"Relaxing ambient music with soft piano and nature sounds">> >>,
     sound_effect_examples |->
        << <<"Gentle rain falling on leaves">>,
           <<"Ocean waves crashing on the shore">> >>]

\* for i, example in enumerate(examples, 1): f"{i}. {example}\n"
RECURSIVE NumberedLines(_, _)
NumberedLines(examples, i) ==
    IF i > Len(examples) THEN << >>
    ELSE <<ToString(i), ". ">> \o examples[i] \o <<"\n">>
         \o NumberedLines(examples, i + 1)

\* format_examples_response()
FormatExamplesResponse ==
    PyList(<< TextContent(
        <<"Music Generation Examples:", "Music Prompts:">>
        \o NumberedLines(ExamplePrompts.music_examples, 1)
        \o <<"Sound Effect Prompts:">>
        \o NumberedLines(ExamplePrompts.sound_effect_examples, 1)
        \o <<"Usage Tips:">>) >>)

\* a call of format_examples_response with nargs positional arguments: the
\* function is declared with none
CallFormatExamplesResponse(nargs) ==
    IF nargs = 0 THEN Ok(FormatExamplesResponse)
    ELSE Raise("TypeError",
               <<"format_examples_response() takes 0 positional arguments but 1 was given">>)

\* format_audio_response: only the success branch returns a value; a
\* function that falls off its end returns None
FormatAudioResponse(result) ==
    IF GetSuccess(result)
    THEN PyList(<< TextContent(
            <<"Music generated successfully!", "Audio: ">> \o result.filename
            \o <<"Duration: ">> \o StrOf(result.duration_seconds)
            \o <<"Prompt: ">> \o StrOf(result.prompt)
            \o <<"File Size: ", ToString(result.file_size)>>
            \o <<"Type: ">> \o result.mime_type
            \o <<"Audio Data (Base64):", "<fence>">> \o result.audio_base64
            \o <<"<fence>", "Save as ">> \o result.filename) >>)
    ELSE PyNone

\* format_connection_test_response
FormatConnectionTestResponse(result) ==
    IF GetSuccess(result)
    THEN PyList(<< TextContent(<<"ElevenLabs API connection successful!">>) >>)
    ELSE PyList(<< TextContent(
            <<"ElevenLabs API connection failed: ">>
            \o Get(result, "message", <<"Unknown error">>)) >>)

\* the numbered listing of format_models_response
RECURSIVE ModelLines(_, _)
ModelLines(models, i) ==
    IF i > Len(models) THEN << >>
    ELSE <<ToString(i), ". ">> \o Get(models[i], "name", <<"Unknown">>)
         \o <<" (">> \o Get(models[i], "model_id", << >>) \o <<")">>
         \o Get(models[i], "description", <<"No description available">>)
         \o ModelLines(models, i + 1)

\* format_models_response
FormatModelsResponse(result) ==
    IF GetSuccess(result)
    THEN LET models == Get(result, "models", PyList(<< >>))
         IN  IF Truthy(models)
             THEN PyList(<< TextContent(
                     <<"Available ElevenLabs Models:">> \o ModelLines(models.v, 1)) >>)
             ELSE PyList(<< TextContent(<<"No models found.">>) >>)
    ELSE PyList(<< TextContent(
            <<"Failed to get models: ">>
            \o Get(result, "error", <<"Unknown error">>)) >>)

\* the formatter each operation's result goes through
FormatResult(op, result) ==
    CASE op \in {"generate_music", "generate_sound_effect"} -> FormatAudioResponse(result)
      [] op = "test_connection" -> FormatConnectionTestResponse(result)
      [] OTHER -> FormatModelsResponse(result)

---------------------------------------------------------------------------
(* An entry point runs until it returns or suspends at the HTTP call *)

Suspended(svc, request) == [kind |-> "suspend", service |-> svc, request |-> request]
Finished(svc, r) == [kind |-> "done", service |-> svc, reply |-> r]

---------------------------------------------------------------------------
(* gitbeat_mcp/server.py *)

\* CallToolResult(content=...): a pydantic model whose content is a list
CallToolResult(content) ==
    IF content.t = "list" THEN Ok([content |-> content])
    ELSE Raise("ValidationError", <<"1 validation error for CallToolResult">>)

\* list_tools: ListToolsResult(tools=get_tool_definitions())
ListToolsResult(tools) == [tools |-> tools]

\* call_tool: except Exception as e
ToolExceptionResult(name, exc) ==
    [content |-> PyList(<< TextContent(
        <<"Error executing tool ", name, ": ">> \o exc) >>)]

\* call_tool: the else branch of the dispatch on name
UnknownToolResult(name) ==
    [content |-> PyList(<< TextContent(<<"Unknown tool: ", name>>) >>)]

\* handle_generate_music / handle_generate_sound_effect: if not prompt
PromptRequiredResult(what) ==
    [content |-> PyList(<< TextContent(
        <<"Error: 'prompt' parameter is required for ", what>>) >>)]

\* handle_generate_music, up to the awaited service call
HandleGenerateMusic(svc, arguments) ==
    LET prompt           == Get(arguments, "prompt", PyStr(<< >>))
        duration_seconds == Get(arguments, "duration_seconds",
                                PyInt(config.default_duration))
    IN  IF ~Truthy(prompt)
        THEN Finished(svc, PromptRequiredResult("music generation"))
        ELSE Suspended(svc, McpMusicRequest(svc, prompt, duration_seconds))

\* handle_generate_sound_effect, up to the awaited service call
HandleGenerateSoundEffect(svc, arguments) ==
    LET prompt           == Get(arguments, "prompt", PyStr(<< >>))
        duration_seconds == Get(arguments, "duration_seconds",
                                PyInt(SoundDefaultDuration))
    IN  IF ~Truthy(prompt)
        THEN Finished(svc, PromptRequiredResult("sound effect generation"))
        ELSE Suspended(svc, SoundRequest(svc, prompt, duration_seconds))

\* handle_get_examples
HandleGetExamples(svc) ==
    LET content == CallFormatExamplesResponse(0)
        r       == CallToolResult(content.val)
    IN  Finished(svc, r.val)

\* call_tool, up to its first suspension: the service is constructed from
\* the arguments before the tool name is looked at
CallToolStep(name, arguments) ==
    LET elevenlabs_api_key == Get(arguments, "elevenlabs_api_key", PyStr(<< >>))
        made               == NewService("mcp", elevenlabs_api_key)
        svc                == made.val
    IN  IF ~made.ok THEN Finished(PyNone, ToolExceptionResult(name, made.exc))
        ELSE CASE name = "generate_music" -> HandleGenerateMusic(svc, arguments)
               [] name = "generate_sound_effect" ->
                      HandleGenerateSoundEffect(svc, arguments)
               [] name = "test_elevenlabs_connection" ->
                      Suspended(svc, TestConnectionRequest(svc))
               [] name = "get_available_models" ->
                      Suspended(svc, GetModelsRequest(svc))
               [] name = "get_music_examples" -> HandleGetExamples(svc)
               [] OTHER -> Finished(svc, UnknownToolResult(name))

\* call_tool, resumed with the service result: the handler formats it and
\* wraps it; whatever the handler raises is caught by call_tool
CallToolResume(name, op, result) ==
    LET r == CallToolResult(FormatResult(op, result))
    IN  IF r.ok THEN r.val ELSE ToolExceptionResult(name, r.exc)

\* config.<name>: a pydantic model raises AttributeError for a name that is
\* not one of its fields
ConfigAttr(name) ==
    IF name \in DOMAIN config THEN Ok(config[name])
    ELSE Raise("AttributeError",
               <<"'MCPServerConfig' object has no attribute ", name>>)

\* main(): the try block that validates the configuration; in
\* `not config.valid_api_keys and not config.master_api_key` the second
\* attribute is read only when the first is falsy
ValidateConfiguration ==
    LET valid_api_keys == ConfigAttr("valid_api_keys")
        master_api_key == ConfigAttr("master_api_key")
    IN  IF config.elevenlabs_api_key = << >>
        THEN Raise("ValueError", <<"ElevenLabs API key is required">>)
        ELSE IF ~valid_api_keys.ok THEN valid_api_keys
        ELSE IF valid_api_keys.val # << >> THEN Ok(TRUE)
        ELSE IF ~master_api_key.ok THEN master_api_key
        ELSE IF master_api_key.val # << >> THEN Ok(TRUE)
        ELSE Raise("ValueError", <<"At least one valid API key must be configured">>)

\* where main() stands: back at its caller after a configuration error, or
\* inside server.run
MainOutcome(validated, serving, logged) ==
    [validated |-> validated, serving |-> serving, logged |-> logged]

\* main(), up to its first suspension: a configuration error is logged and
\* main returns; otherwise the connection test is started with
\* ElevenLabsService(), and what that raises is logged and start-up goes on
MainStep ==
    LET validated == ValidateConfiguration
        made      == NewService("mcp", PyNone)
    IN  IF ~validated.ok
        THEN Finished(PyNone,
                 MainOutcome(FALSE, FALSE, <<"Configuration error: ">> \o validated.exc))
        ELSE IF ~made.ok
        THEN Finished(PyNone,
                 MainOutcome(TRUE, TRUE,
                     <<"Failed to test ElevenLabs connection: ">> \o made.exc))
        ELSE Suspended(made.val, TestConnectionRequest(made.val))

\* main(), resumed with the result of the connection test: the result is
\* logged and server.run is entered whatever it is
MainResume(result) ==
    MainOutcome(TRUE, TRUE,
        IF GetSuccess(result)
        THEN <<"ElevenLabs API connection test successful">>
        ELSE <<"ElevenLabs API connection test failed: ">>
             \o Get(result, "message", <<"None">>))

---------------------------------------------------------------------------
(* gitbeat_mcp/tools.py handle_tool_call *)

ToolError(text) == [error |-> text]

\* the prologue of each credential-requiring branch: the key is checked,
\* then the service is constructed inside the try
ToolCredential(arguments) ==
    LET api_key == Get(arguments, "elevenlabs_api_key", PyNone)
        made    == NewService("mcp", api_key)
    IN  IF ~Truthy(api_key)
        THEN [ok |-> FALSE, reply |-> ToolError(<<"ElevenLabs API key is required">>)]
        ELSE IF ~made.ok
        THEN [ok |-> FALSE,
              reply |-> ToolError(<<"Tool execution failed: ">> \o made.exc)]
        ELSE Ok(made.val)

\* handle_tool_call, up to its first suspension
HandleToolCallStep(tool_name, arguments) ==
    LET cred == ToolCredential(arguments)
        svc  == cred.val
    IN  CASE tool_name = "generate_music" ->
                IF ~cred.ok THEN Finished(PyNone, cred.reply)
                ELSE Suspended(svc, McpMusicRequest(svc,
                         Get(arguments, "prompt", PyNone),
                         Get(arguments, "duration_seconds", PyNone)))
          [] tool_name = "generate_sound_effect" ->
                IF ~cred.ok THEN Finished(PyNone, cred.reply)
                ELSE Suspended(svc, SoundRequest(svc,
                         Get(arguments, "prompt", PyNone),
                         Get(arguments, "duration_seconds", PyNone)))
          [] tool_name = "test_elevenlabs_connection" ->
                IF ~cred.ok THEN Finished(PyNone, cred.reply)
                ELSE Suspended(svc, TestConnectionRequest(svc))
          [] tool_name = "get_available_models" ->
                IF ~cred.ok THEN Finished(PyNone, cred.reply)
                ELSE Suspended(svc, GetModelsRequest(svc))
          [] tool_name = "get_music_examples" ->
                LET content == CallFormatExamplesResponse(1)
                IN  IF content.ok
                    THEN Finished(PyNone, [content |-> content.val])
                    ELSE Finished(PyNone,
                             ToolError(<<"Tool execution failed: ">> \o content.exc))
          [] OTHER -> Finished(PyNone, ToolError(<<"Unknown tool: ", tool_name>>))

\* handle_tool_call, resumed with the service result
HandleToolCallResume(op, result) == [content |-> FormatResult(op, result)]

---------------------------------------------------------------------------
(* api.py: the REST facade *)

\* Field(...) constraints of the request models
MusicPromptMaxLength == 1000
SoundPromptMaxLength == 500
MusicDurationMax == 30
SoundDurationMax == 15
\* prompt_influence is carried in hundredths: le=1.0
PromptInfluenceMax == 100

\* the response FastAPI gives for a body that fails validation
ValidationErrorResponse == [status_code |-> 422, detail |-> <<"validation error">>]

\* raise HTTPException(status_code=..., detail=str(e))
HTTPException(status_code, detail) == [status_code |-> status_code, detail |-> detail]

\* a required str field with min_length=1
ValidStr(body, key) ==
    /\ key \in DOMAIN body
    /\ body[key].t = "str"
    /\ Len(body[key].v) >= 1

\* ValidOptionalInt without the le= bound
ValidOptionalIntWithoutUpperBound(body, key, lo, hi) ==
    key \in DOMAIN body =>
        \/ body[key].t = "none"
        \/ body[key].t = "int" /\ body[key].v >= lo

\* Optional[int] = Field(default=..., ge=lo, le=hi): None is accepted
ValidOptionalInt(body, key, lo, hi) ==
    key \in DOMAIN body =>
        \/ body[key].t = "none"
        \/ body[key].t = "int" /\ body[key].v >= lo /\ body[key].v <= hi

\* MusicGenerationRequest
ValidMusicRequest(body) ==
    /\ ValidStr(body, "prompt")
    /\ Len(body.prompt.v) <= MusicPromptMaxLength
    /\ ValidOptionalInt(body, "duration_seconds", 1, MusicDurationMax)
    /\ ValidOptionalInt(body, "prompt_influence", 0, PromptInfluenceMax)
    /\ ValidStr(body, "elevenlabs_api_key")

\* SoundEffectRequest
ValidSoundRequest(body) ==
    /\ ValidStr(body, "prompt")
    /\ Len(body.prompt.v) <= SoundPromptMaxLength
    /\ ValidOptionalInt(body, "duration_seconds", 1, SoundDurationMax)
    /\ ValidStr(body, "elevenlabs_api_key")

\* APIKeyRequest
ValidAPIKeyRequest(body) == ValidStr(body, "elevenlabs_api_key")

\* the style hints of a validated MusicGenerationRequest, None when not given
RequestHints(body) ==
    [k \in {"genre", "mood", "tempo", "instruments"} |-> Get(body, k, PyNone)]

\* an endpoint's try block: a ValueError becomes 400, anything else 500
EndpointException(e) ==
    IF e.type = "ValueError" THEN HTTPException(400, e.exc)
    ELSE HTTPException(500, e.exc)

\* generate_music_endpoint, up to its first suspension
GenerateMusicEndpointStep(body) ==
    IF ~ValidMusicRequest(body) THEN Finished(PyNone, ValidationErrorResponse)
    ELSE LET made == NewService("rest", body.elevenlabs_api_key)
             req  == RestMusicRequest(made.val, body.prompt,
                        Get(body, "duration_seconds", PyInt(10)),
                        Get(body, "composition_mode", PyBool(FALSE)),
                        RequestHints(body))
         IN  IF ~made.ok THEN Finished(PyNone, EndpointException(made))
             ELSE IF ~req.ok THEN Finished(made.val, EndpointException(req))
             ELSE Suspended(made.val, req.val)

\* generate_sound_endpoint, up to its first suspension
GenerateSoundEndpointStep(body) ==
    IF ~ValidSoundRequest(body) THEN Finished(PyNone, ValidationErrorResponse)
    ELSE LET made == NewService("rest", body.elevenlabs_api_key)
         IN  IF ~made.ok THEN Finished(PyNone, EndpointException(made))
             ELSE Suspended(made.val,
                      SoundRequest(made.val, body.prompt,
                          Get(body, "duration_seconds", PyInt(SoundDefaultDuration))))

\* test_connection_endpoint and get_models_endpoint, up to the suspension
APIKeyEndpointStep(body, op) ==
    IF ~ValidAPIKeyRequest(body) THEN Finished(PyNone, ValidationErrorResponse)
    ELSE LET made == NewService("rest", body.elevenlabs_api_key)
         IN  IF ~made.ok THEN Finished(PyNone, EndpointException(made))
             ELSE Suspended(made.val,
                      IF op = "test_connection" THEN TestConnectionRequest(made.val)
                      ELSE GetModelsRequest(made.val))

\* get_examples_endpoint: the static catalog, no request body
GetExamplesEndpointStep ==
    Finished(PyNone,
        [status_code |-> 200,
         body |-> [success |-> TRUE,
                   examples |-> [basic_music_examples |-> ExamplePrompts.music_examples,
                                 sound_effect_examples |->
                                     ExamplePrompts.sound_effect_examples,
                                 usage_tips |-> <<"basic_mode", "composition_mode">>]]])

\* an endpoint resumed with the service result: return result
EndpointResume(result) == [status_code |-> 200, body |-> result]

---------------------------------------------------------------------------
(* The RPC/event facade: the JSON-RPC envelope of POST /mcp and of the      *)
(* event stream of GET /sse.  The module that serves them is not among the *)
(* source files; these definitions follow sections 3, 4.4, 5 and 6 of the  *)
(* specification.                                                          *)

\* "a ping notification every 30 seconds"
PingIntervalSeconds == 30
\* "method not found" error envelope
MethodNotFoundCode == -32601
\* "internal error" envelope
InternalErrorCode == -32603

\* RpcEnvelope: version tag, request id, and a result payload ...
RpcResult(id, result) == [jsonrpc |-> "2.0", id |-> id, result |-> result]

\* ... or an error object with a numeric code and a message
RpcError(id, code, message) ==
    [jsonrpc |-> "2.0", id |-> id, error |-> [code |-> code, message |-> message]]

\* initialize: protocol, version, capabilities
InitializeResult ==
    [protocolVersion |-> <<"<protocol>">>,
     serverInfo |-> <<"<name>", "<version>">>,
     capabilities |-> [tools |-> TRUE]]

\* tools/list: the catalog
ToolsListResult == [tools |-> GetToolDefinitions]

\* the liveness notification, which embeds a timestamp
PingNotification(timestamp) ==
    [jsonrpc |-> "2.0", method |-> "ping", params |-> [timestamp |-> timestamp]]

\* the id of an envelope the stream emits on its own account
SyntheticId(method) == PyStr(<<"sse:", method>>)

\* the id of an inbound envelope, None when it carries none
RequestId(envelope) == Get(envelope, "id", PyNone)

\* RpcStep with a session: a method other than initialize is refused until
\* an initialize has been handled
RpcStepRequiringInitialize(envelope, fault) ==
    IF fault # PyNone
    THEN Finished(PyNone, RpcError(RequestId(envelope), InternalErrorCode,
                                   <<"Internal error: ">> \o fault.v))
    ELSE IF envelope.method # "initialize" /\ "initialize" \notin rpcSeen
    THEN Finished(PyNone, RpcError(RequestId(envelope), InternalErrorCode,
                                   <<"Internal error: ", "not initialized">>))
    ELSE CASE envelope.method = "initialize" ->
                Finished(PyNone, RpcResult(RequestId(envelope), InitializeResult))
           [] envelope.method = "tools/list" ->
                Finished(PyNone, RpcResult(RequestId(envelope), ToolsListResult))
           [] envelope.method = "tools/call" ->
                LET step == HandleToolCallStep(envelope.params.name,
                                               envelope.params.arguments)
                IN  IF step.kind = "done"
                    THEN Finished(step.service,
                                  RpcResult(RequestId(envelope), step.reply))
                    ELSE step
           [] OTHER ->
                Finished(PyNone, RpcError(RequestId(envelope), MethodNotFoundCode,
                                          <<"Method not found: ", envelope.method>>))

\* one-shot transport: one inbound envelope, up to its response or to the
\* HTTP call of the tool it dispatches; fault is the exception processing
\* raised, None when it raised none
RpcStep(envelope, fault) ==
    IF fault # PyNone
    THEN Finished(PyNone, RpcError(RequestId(envelope), InternalErrorCode,
                                   <<"Internal error: ">> \o fault.v))
    ELSE CASE envelope.method = "initialize" ->
                Finished(PyNone, RpcResult(RequestId(envelope), InitializeResult))
           [] envelope.method = "tools/list" ->
                Finished(PyNone, RpcResult(RequestId(envelope), ToolsListResult))
           [] envelope.method = "tools/call" ->
                LET step == HandleToolCallStep(envelope.params.name,
                                               envelope.params.arguments)
                IN  IF step.kind = "done"
                    THEN Finished(step.service,
                                  RpcResult(RequestId(envelope), step.reply))
                    ELSE step
           [] OTHER ->
                Finished(PyNone, RpcError(RequestId(envelope), MethodNotFoundCode,
                                          <<"Method not found: ", envelope.method>>))

\* tools/call resumed with the service result: the formatted result is
\* wrapped in an envelope
RpcToolsCallResume(envelope, op, result) ==
    RpcResult(RequestId(envelope), HandleToolCallResume(op, result))

---------------------------------------------------------------------------
(* The inputs the entry points are driven with *)

Absent == [t |-> "absent"]

\* a dict from a record of optional members: the Absent ones are left out
Dict(f) == [k \in {x \in DOMAIN f : f[x] # Absent} |-> f[k]]

ApiKeyInputs == {Absent, PyStr(<< >>), PyStr(<<"user-key">>)}
PromptInputs == {Absent, PyStr(<< >>), PyStr(<<"p">>)}

\* a text of n characters
LongText(n) == [i \in 1..n |-> "x"]

\* the prompts of a POST /generate-music or /generate-sound body: absent,
\* empty, short, of the greatest length allowed and one character longer
RestPromptInputs(max_length) ==
    PromptInputs \cup {PyStr(LongText(max_length)), PyStr(LongText(max_length + 1))}

DurationInputs ==
    (-1..1) \cup ((MusicFloor - 1)..(MusicFloor + 1))
            \cup ((max_duration - 1)..MaxDurationInput)

\* the names a tools/call may carry: the catalog, and one that is not in it
ToolNameInputs == ToolNames \cup {"play_song"}

\* the arguments of a tools/call: every combination of credential and
\* prompt, and every duration beside a prompt
ToolArguments ==
    {Dict(f) : f \in [elevenlabs_api_key : ApiKeyInputs,
                      prompt : PromptInputs,
                      duration_seconds : {Absent}]}
    \cup {Dict(f) : f \in [elevenlabs_api_key : ApiKeyInputs,
                           prompt : {PyStr(<<"p">>)},
                           duration_seconds : {PyInt(d) : d \in DurationInputs}]}

\* the style hints a POST /generate-music body may carry
HintInputs ==
    {[composition_mode |-> Absent, genre |-> Absent, mood |-> Absent,
      tempo |-> Absent, instruments |-> Absent],
     [composition_mode |-> Absent, genre |-> PyStr(<<"pop">>), mood |-> Absent,
      tempo |-> Absent, instruments |-> Absent],
     [composition_mode |-> PyBool(FALSE), genre |-> PyStr(<<"pop">>),
      mood |-> PyStr(<<"calm">>), tempo |-> PyStr(<<"slow">>),
      instruments |-> PyList(<< <<"piano">> >>)],
     [composition_mode |-> PyNone, genre |-> Absent, mood |-> PyStr(<<"calm">>),
      tempo |-> Absent, instruments |-> Absent],
     [composition_mode |-> PyBool(TRUE), genre |-> Absent, mood |-> Absent,
      tempo |-> Absent, instruments |-> Absent],
     [composition_mode |-> PyBool(TRUE), genre |-> PyStr(<< >>), mood |-> Absent,
      tempo |-> Absent, instruments |-> Absent],
     [composition_mode |-> PyBool(TRUE), genre |-> PyStr(<< >>),
      mood |-> PyStr(<< >>), tempo |-> PyStr(<< >>), instruments |-> PyList(<< >>)],
     [composition_mode |-> PyBool(TRUE), genre |-> PyStr(<< >>),
      mood |-> PyStr(<<"calm">>), tempo |-> PyStr(<<"slow">>),
      instruments |-> PyList(<< >>)],
     [composition_mode |-> PyBool(TRUE), genre |-> PyStr(<<"pop">>), mood |-> PyNone,
      tempo |-> Absent, instruments |-> PyList(<< <<"piano">> >>)]}

\* request bodies of POST /generate-music
MusicRequestBodies ==
    {Dict([elevenlabs_api_key |-> f.elevenlabs_api_key,
           prompt |-> f.prompt,
           duration_seconds |-> f.duration_seconds,
           prompt_influence |-> f.prompt_influence,
           composition_mode |-> f.hints.composition_mode,
           genre |-> f.hints.genre,
           mood |-> f.hints.mood,
           tempo |-> f.hints.tempo,
           instruments |-> f.hints.instruments]) :
        f \in [elevenlabs_api_key : ApiKeyInputs,
               prompt : RestPromptInputs(MusicPromptMaxLength),
               duration_seconds :
                   {Absent, PyNone}
                   \cup {PyInt(d) : d \in {0, 1, MusicFloor - 1, MusicFloor,
                                           MusicDurationMax, MusicDurationMax + 1}},
               prompt_influence : {Absent, PyInt(-10), PyInt(PromptInfluenceMax + 50)},
               hints : HintInputs]}

\* request bodies of POST /generate-sound
SoundRequestBodies ==
    {Dict(f) : f \in [elevenlabs_api_key : ApiKeyInputs,
                      prompt : RestPromptInputs(SoundPromptMaxLength),
                      duration_seconds :
                          {Absent, PyNone}
                          \cup {PyInt(d) : d \in {0, 1, SoundDurationMax,
                                                  SoundDurationMax + 1}}]}

\* request bodies of POST /test-connection and POST /models
APIKeyRequestBodies == {Dict(f) : f \in [elevenlabs_api_key : ApiKeyInputs]}

\* the coroutines that handle requests at the same time
Slots == 1..MaxConcurrent

\* a coroutine that handles no request
IdleTask == [pc |-> "idle"]

---------------------------------------------------------------------------
(* The state machine *)

Init ==
    /\ config \in {MCPServerConfig(k) : k \in ConfigKeys}
    /\ pc = "idle"
    /\ call = PyNone
    /\ service = PyNone
    /\ pending = PyNone
    /\ sent = << >>
    /\ upstream = PyNone
    /\ svcResult = PyNone
    /\ reply = PyNone
    /\ sseState = "NoConnection"
    /\ sseLoop = "send"
    /\ sseEvents = << >>
    /\ peerConnected = FALSE
    /\ now = 0
    /\ rpcSeen = {}
    /\ tasks = [i \in Slots |-> IdleTask]
    /\ started = 0

\* an entry point runs to its return or to the HTTP call
Begin(c, step) ==
    /\ call' = c
    /\ service' = step.service
    /\ IF step.kind = "suspend"
       THEN /\ pc' = "awaiting"
            /\ pending' = step.request
            /\ sent' = Append(sent, step.request)
            /\ reply' = PyNone
       ELSE /\ pc' = "returned"
            /\ pending' = PyNone
            /\ sent' = sent
            /\ reply' = step.reply
    /\ rpcSeen' = IF c.facade = "rpc" THEN rpcSeen \cup {c.name} ELSE rpcSeen
    /\ UNCHANGED <<config, upstream, svcResult>>
    /\ UNCHANGED <<sseVars, concVars>>

\* server.py main(): the entry point of the stdio server
Main ==
    /\ pc = "idle"
    /\ Begin([facade |-> "main", name |-> "main", arguments |-> EmptyDict], MainStep)

\* server.py list_tools()
ListTools ==
    /\ pc = "idle"
    /\ Begin([facade |-> "list_tools", name |-> "tools/list", arguments |-> EmptyDict],
             Finished(PyNone, ListToolsResult(GetToolDefinitions)))

\* server.py call_tool(name, arguments)
CallTool ==
    /\ pc = "idle"
    /\ \E name \in ToolNameInputs, arguments \in ToolArguments :
        Begin([facade |-> "server", name |-> name, arguments |-> arguments],
              CallToolStep(name, arguments))

\* tools.py handle_tool_call(tool_name, arguments)
HandleToolCall ==
    /\ pc = "idle"
    /\ \E tool_name \in ToolNameInputs, arguments \in ToolArguments :
        Begin([facade |-> "tools", name |-> tool_name, arguments |-> arguments],
              HandleToolCallStep(tool_name, arguments))

\* api.py POST /generate-music
GenerateMusicEndpoint ==
    /\ pc = "idle"
    /\ \E body \in MusicRequestBodies :
        Begin([facade |-> "rest", name |-> "/generate-music", arguments |-> body],
              GenerateMusicEndpointStep(body))

\* api.py POST /generate-sound
GenerateSoundEndpoint ==
    /\ pc = "idle"
    /\ \E body \in SoundRequestBodies :
        Begin([facade |-> "rest", name |-> "/generate-sound", arguments |-> body],
              GenerateSoundEndpointStep(body))

\* api.py POST /test-connection
TestConnectionEndpoint ==
    /\ pc = "idle"
    /\ \E body \in APIKeyRequestBodies :
        Begin([facade |-> "rest", name |-> "/test-connection", arguments |-> body],
              APIKeyEndpointStep(body, "test_connection"))

\* api.py POST /models
GetModelsEndpoint ==
    /\ pc = "idle"
    /\ \E body \in APIKeyRequestBodies :
        Begin([facade |-> "rest", name |-> "/models", arguments |-> body],
              APIKeyEndpointStep(body, "get_available_models"))

\* api.py GET /examples
GetExamplesEndpoint ==
    /\ pc = "idle"
    /\ Begin([facade |-> "rest", name |-> "/examples", arguments |-> EmptyDict],
             GetExamplesEndpointStep)

\* what the suspended entry point returns once the service call has returned
FacadeReply(c, op, result) ==
    CASE c.facade = "server" -> CallToolResume(c.name, op, result)
      [] c.facade = "tools"  -> HandleToolCallResume(op, result)
      [] c.facade = "rpc"    -> RpcToolsCallResume(c.arguments, op, result)
      [] c.facade = "main"   -> MainResume(result)
      [] OTHER               -> EndpointResume(result)

\* Resume with one retry of a request that failed in transport
ResumeRetryingOnce(outcome) ==
    IF outcome.kind = "exception" /\ Len(sent) < 2
    THEN /\ upstream' = outcome
         /\ sent' = Append(sent, pending)
         /\ UNCHANGED <<config, pc, call, service, pending, svcResult, reply>>
         /\ UNCHANGED <<sseVars, rpcSeen, concVars>>
    ELSE /\ upstream' = outcome
         /\ svcResult' = ServiceResult(service, pending, outcome)
         /\ reply' = FacadeReply(call, pending.op, svcResult')
         /\ pending' = PyNone
         /\ pc' = "returned"
         /\ UNCHANGED <<config, call, service, sent>>
         /\ UNCHANGED <<sseVars, rpcSeen, concVars>>

\* the awaited HTTP call completes and the call runs to its return
Resume(outcome) ==
    /\ upstream' = outcome
    /\ svcResult' = ServiceResult(service, pending, outcome)
    /\ reply' = FacadeReply(call, pending.op, svcResult')
    /\ pending' = PyNone
    /\ pc' = "returned"
    /\ UNCHANGED <<config, call, service, sent>>
    /\ UNCHANGED <<sseVars, rpcSeen, concVars>>

\* upstream answers the request
UpstreamResponse ==
    /\ pc = "awaiting"
    /\ \E resp \in Responses : Resume(Responded(resp))

\* the request fails in transport: timeout, DNS, connection reset
UpstreamException ==
    /\ pc = "awaiting"
    /\ \E e \in TransportErrors : Resume(Failed(e))

\* the caller has its reply; the per-call objects are dropped
Return ==
    /\ pc = "returned"
    /\ pc' = "idle"
    /\ call' = PyNone
    /\ service' = PyNone
    /\ pending' = PyNone
    /\ sent' = << >>
    /\ upstream' = PyNone
    /\ svcResult' = PyNone
    /\ reply' = PyNone
    /\ UNCHANGED <<config, sseVars, rpcSeen, concVars>>

Next ==
    \/ Main
    \/ ListTools
    \/ CallTool
    \/ HandleToolCall
    \/ GenerateMusicEndpoint
    \/ GenerateSoundEndpoint
    \/ TestConnectionEndpoint
    \/ GetModelsEndpoint
    \/ GetExamplesEndpoint
    \/ UpstreamResponse
    \/ UpstreamException
    \/ Return

Spec == Init /\ [][Next]_vars

---------------------------------------------------------------------------
(* The one-shot transport: POST /mcp *)

\* an inbound envelope; one without a request id has no "id" member
RpcEnvelope(method, id, params) ==
    IF id = Absent THEN [method |-> method, params |-> params]
    ELSE [method |-> method, id |-> id, params |-> params]

RpcIds == {Absent, PyInt(1), PyStr(<<"req-2">>)}

\* the params of a tools/call
RpcToolCalls ==
    {[name |-> "generate_music",
      arguments |-> [elevenlabs_api_key |-> PyStr(<<"user-key">>),
                     prompt |-> PyStr(<<"p">>)]],
     [name |-> "test_elevenlabs_connection", arguments |-> EmptyDict],
     [name |-> "get_music_examples", arguments |-> EmptyDict],
     [name |-> "play_song", arguments |-> EmptyDict]}

\* the supported methods, and one that is not supported
RpcEnvelopes ==
    {RpcEnvelope(m, i, EmptyDict) :
        m \in {"initialize", "tools/list", "resources/list"}, i \in RpcIds}
    \cup {RpcEnvelope("tools/call", i, p) : i \in RpcIds, p \in RpcToolCalls}

\* str(e) of an exception raised while an envelope is processed
ProcessingFaults == {<<"RuntimeError: boom">>}

\* POST /mcp with one envelope
RpcRequest ==
    /\ pc = "idle"
    /\ \E envelope \in RpcEnvelopes,
          fault \in {PyNone} \cup {PyStr(f) : f \in ProcessingFaults} :
        Begin([facade |-> "rpc", name |-> envelope.method,
               arguments |-> envelope, fault |-> fault],
              RpcStep(envelope, fault))

RpcNext ==
    \/ RpcRequest
    \/ UpstreamResponse
    \/ UpstreamException
    \/ Return

RpcSpec == Init /\ [][RpcNext]_vars

---------------------------------------------------------------------------
(* The streamed transport: GET /sse, one connection *)

\* str(e) of an exception raised in the liveness loop
StreamFaults == {<<"RuntimeError: stream fault">>}

\* the event is appended to the stream
Emit(event) == sseEvents' = Append(sseEvents, event)

\* time passes before the peer connects
Tick ==
    /\ sseState = "NoConnection"
    /\ now + PingIntervalSeconds <= MaxTicks * PingIntervalSeconds
    /\ now' = now + PingIntervalSeconds
    /\ UNCHANGED <<callVars, rpcSeen, concVars, sseState, sseLoop, sseEvents, peerConnected>>

\* the peer opens the stream
SseConnect ==
    /\ sseState = "NoConnection"
    /\ sseState' = "Connected"
    /\ peerConnected' = TRUE
    /\ UNCHANGED <<callVars, rpcSeen, concVars, sseLoop, sseEvents, now>>

\* SseInitialize entering the liveness loop at once, the tools/list-result
\* envelope left out
SseInitializeThenServe ==
    /\ sseState = "Connected"
    /\ Emit(RpcResult(SyntheticId("initialize"), InitializeResult))
    /\ sseState' = "Serving"
    /\ UNCHANGED <<callVars, rpcSeen, concVars, sseLoop, peerConnected, now>>

\* on connect, the initialize-result envelope is emitted eagerly
SseInitialize ==
    /\ sseState = "Connected"
    /\ Emit(RpcResult(SyntheticId("initialize"), InitializeResult))
    /\ sseState' = "Initialized"
    /\ UNCHANGED <<callVars, rpcSeen, concVars, sseLoop, peerConnected, now>>

\* followed by the tools/list-result envelope; the liveness loop is entered
SseToolsList ==
    /\ sseState = "Initialized"
    /\ Emit(RpcResult(SyntheticId("tools/list"), ToolsListResult))
    /\ sseState' = "Serving"
    /\ sseLoop' = "send"
    /\ UNCHANGED <<callVars, rpcSeen, concVars, peerConnected, now>>

\* SsePing without the liveness check before the send
SsePingWithoutLivenessCheck ==
    /\ sseState = "Serving"
    /\ sseLoop = "send"
    /\ Emit(PingNotification(now))
    /\ sseLoop' = "sleep"
    /\ UNCHANGED <<callVars, rpcSeen, concVars, sseState, peerConnected, now>>

\* one turn of the liveness loop: peer liveness is checked before the send;
\* on disconnect the loop is left without further output
SsePing ==
    /\ sseState = "Serving"
    /\ sseLoop = "send"
    /\ IF peerConnected
       THEN /\ Emit(PingNotification(now))
            /\ sseLoop' = "sleep"
            /\ UNCHANGED sseState
       ELSE /\ sseState' = "Closed"
            /\ UNCHANGED <<sseEvents, sseLoop>>
    /\ UNCHANGED <<callVars, rpcSeen, concVars, peerConnected, now>>

\* the 30-second sleep between two pings is over
SseSleep ==
    /\ sseState = "Serving"
    /\ sseLoop = "sleep"
    /\ now + PingIntervalSeconds <= MaxTicks * PingIntervalSeconds
    /\ now' = now + PingIntervalSeconds
    /\ sseLoop' = "send"
    /\ UNCHANGED <<callVars, rpcSeen, concVars, sseState, sseEvents, peerConnected>>

\* a fault during the loop: one error envelope, then the stream ends
SseFault ==
    /\ sseState = "Serving"
    /\ \E fault \in StreamFaults :
          Emit(RpcError(PyNone, InternalErrorCode, <<"Stream error: ">> \o fault))
    /\ sseState' = "Closed"
    /\ UNCHANGED <<callVars, rpcSeen, concVars, sseLoop, peerConnected, now>>

\* the peer goes away
PeerDisconnect ==
    /\ sseState \in {"Connected", "Initialized", "Serving"}
    /\ peerConnected
    /\ peerConnected' = FALSE
    /\ UNCHANGED <<callVars, rpcSeen, concVars, sseState, sseLoop, sseEvents, now>>

StreamNext ==
    \/ Tick
    \/ SseConnect
    \/ SseInitialize
    \/ SseToolsList
    \/ SsePing
    \/ SseSleep
    \/ SseFault
    \/ PeerDisconnect

StreamSpec == Init /\ [][StreamNext]_vars

---------------------------------------------------------------------------
(* Requests handled concurrently: each coroutine runs from its entry point  *)
(* to its `await client.get/post`, where the event loop may run any other  *)
(* coroutine, and from the outcome of its request to its return            *)

\* the calls in progress at the same time: three facades, two caller keys,
\* and a call that falls back to the configured default key
ConcCalls ==
    {[facade |-> "server", name |-> "generate_music",
      arguments |-> [elevenlabs_api_key |-> PyStr(<<"user-key">>),
                     prompt |-> PyStr(<<"p">>)]],
     [facade |-> "server", name |-> "test_elevenlabs_connection",
      arguments |-> EmptyDict],
     [facade |-> "tools", name |-> "get_available_models",
      arguments |-> [elevenlabs_api_key |-> PyStr(<<"other-key">>)]],
     [facade |-> "rest", name |-> "/generate-music",
      arguments |-> [elevenlabs_api_key |-> PyStr(<<"other-key">>),
                     prompt |-> PyStr(<<"q">>), duration_seconds |-> PyInt(12)]],
     [facade |-> "rest", name |-> "/generate-sound",
      arguments |-> [elevenlabs_api_key |-> PyStr(<<"user-key">>),
                     prompt |-> PyStr(<<"p">>)]]}

\* what the awaited requests of these calls are resumed with
ConcOutcomes ==
    {Responded([status_code |-> 200,
                body |-> [kind |-> "object", content |-> <<123, 125>>,
                          fields |-> [audio |-> PyStr(<<"A","A","E","C">>)]]]),
     Responded([status_code |-> 200, body |-> [kind |-> "raw", content |-> <<0, 255>>]]),
     Responded([status_code |-> 500,
                body |-> [kind |-> "object", content |-> <<123, 125>>,
                          fields |-> [detail |-> PyStr(<<"invalid_api_key">>)]]]),
     Failed(<<"ReadTimeout">>)}

\* the entry point of a call, run to its return or to its HTTP call
EntryStep(c) ==
    CASE c.facade = "server" -> CallToolStep(c.name, c.arguments)
      [] c.facade = "tools"  -> HandleToolCallStep(c.name, c.arguments)
      [] c.name = "/generate-music" -> GenerateMusicEndpointStep(c.arguments)
      [] c.name = "/generate-sound" -> GenerateSoundEndpointStep(c.arguments)
      [] c.name = "/test-connection" ->
            APIKeyEndpointStep(c.arguments, "test_connection")
      [] OTHER -> APIKeyEndpointStep(c.arguments, "get_available_models")

\* ConcBegin with one service instance for the whole process: the instance
\* made for the new call replaces the one every suspended call holds
ConcBeginSharingService(i, c) ==
    /\ tasks[i].pc = "idle"
    /\ started < MaxRequests
    /\ LET step == EntryStep(c)
           seq  == started + 1
       IN  tasks' =
             [j \in Slots |->
                IF j = i
                THEN IF step.kind = "suspend"
                     THEN [pc |-> "awaiting", seq |-> seq, call |-> c,
                           service |-> step.service, pending |-> step.request,
                           sent |-> <<step.request>>, upstream |-> PyNone,
                           svcResult |-> PyNone, reply |-> PyNone]
                     ELSE [pc |-> "returned", seq |-> seq, call |-> c,
                           service |-> step.service, pending |-> PyNone,
                           sent |-> << >>, upstream |-> PyNone,
                           svcResult |-> PyNone, reply |-> step.reply]
                ELSE IF tasks[j].pc = "awaiting" /\ step.service # PyNone
                     THEN [tasks[j] EXCEPT !.service = step.service]
                     ELSE tasks[j]]
    /\ started' = started + 1
    /\ UNCHANGED <<callVars, sseVars, rpcSeen>>

\* coroutine i takes call c and runs it to its return or to its HTTP call;
\* the service instance and the request are its own locals
ConcBegin(i, c) ==
    /\ tasks[i].pc = "idle"
    /\ started < MaxRequests
    /\ LET step == EntryStep(c)
           seq  == started + 1
       IN  tasks' =
             [tasks EXCEPT ![i] =
                IF step.kind = "suspend"
                THEN [pc |-> "awaiting", seq |-> seq, call |-> c,
                      service |-> step.service, pending |-> step.request,
                      sent |-> <<step.request>>, upstream |-> PyNone,
                      svcResult |-> PyNone, reply |-> PyNone]
                ELSE [pc |-> "returned", seq |-> seq, call |-> c,
                      service |-> step.service, pending |-> PyNone,
                      sent |-> << >>, upstream |-> PyNone,
                      svcResult |-> PyNone, reply |-> step.reply]]
    /\ started' = started + 1
    /\ UNCHANGED <<callVars, sseVars, rpcSeen>>

\* the HTTP call of coroutine i completes and the coroutine runs to its
\* return
ConcResume(i, outcome) ==
    /\ tasks[i].pc = "awaiting"
    /\ LET t      == tasks[i]
           result == ServiceResult(t.service, t.pending, outcome)
       IN  tasks' =
             [tasks EXCEPT ![i] =
                [t EXCEPT !.pc = "returned", !.pending = PyNone,
                          !.upstream = outcome, !.svcResult = result,
                          !.reply = FacadeReply(t.call, t.pending.op, result)]]
    /\ UNCHANGED <<started, callVars, sseVars, rpcSeen>>

\* the caller of coroutine i has its reply; the locals are dropped
ConcFinish(i) ==
    /\ tasks[i].pc = "returned"
    /\ tasks' = [tasks EXCEPT ![i] = IdleTask]
    /\ UNCHANGED <<started, callVars, sseVars, rpcSeen>>

\* a request arrives while others may be in progress
ConcRequest == \E i \in Slots, c \in ConcCalls : ConcBegin(i, c)

\* the event loop resumes a coroutine whose request has its outcome
ConcUpstream == \E i \in Slots, outcome \in ConcOutcomes : ConcResume(i, outcome)

ConcReturn == \E i \in Slots : ConcFinish(i)

ConcNext ==
    \/ ConcRequest
    \/ ConcUpstream
    \/ ConcReturn

ConcSpec == Init /\ [][ConcNext]_vars

---------------------------------------------------------------------------
(* Vocabulary of the properties *)

McpFacades == {"server", "tools"}
CredentialTools == ToolNames \ {"get_music_examples"}
GenerationTools == {"generate_music", "generate_sound_effect"}
GenerationOps == {"generate_music", "generate_sound_effect"}

\* the service operation the current call has invoked
LastOp == sent[Len(sent)].op

\* the current call carries no non-empty elevenlabs_api_key
CallLacksCredential ==
    ~Truthy(Get(call.arguments, "elevenlabs_api_key", PyNone))

\* some text of the reply (an "error" string or a text content) embeds e
ReplyEmbeds(r, e) ==
    \/ "error" \in DOMAIN r /\ Embeds(r.error, e)
    \/ /\ "content" \in DOMAIN r
       /\ r.content.t = "list"
       /\ \E i \in 1..Len(r.content.v) : Embeds(r.content.v[i].text, e)

IsCredentialError(r) ==
    \/ ReplyEmbeds(r, <<"ElevenLabs API key is required">>)
    \/ ReplyEmbeds(r, <<"ElevenLabs API key is required. Please provide it in the request.">>)

IsUnknownToolError(r, name) == ReplyEmbeds(r, <<"Unknown tool: ", name>>)

IsMissingPromptError(r) ==
    \E what \in {"music generation", "sound effect generation"} :
        ReplyEmbeds(r, <<"Error: 'prompt' parameter is required for ", what>>)

HasAudio(r) == "audio_base64" \in DOMAIN r /\ r.audio_base64 # << >>
HasError(r) == "error" \in DOMAIN r /\ r.error # << >>

\* d clamped into [10, config.max_duration]; an absent duration counts as
\* below the floor
ClampedSeconds(d) ==
    IF d.t # "int" THEN 10
    ELSE IF d.v < 10 THEN 10
    ELSE IF d.v > config.max_duration THEN config.max_duration
    ELSE d.v

Max(a, b) == IF a >= b THEN a ELSE b

---------------------------------------------------------------------------
(* Properties *)

\* C1: every dispatch of a credential-requiring tool whose arguments lack a
\* non-empty elevenlabs_api_key ends in a credential error with no outbound
\* HTTP request, whatever the process configuration.
\* Fails: server.call_tool falls back to the configured default key.
C1_MissingCredentialIsRejected ==
    (/\ pc # "idle"
     /\ call.facade \in McpFacades
     /\ call.name \in CredentialTools
     /\ CallLacksCredential)
    => (sent = << >> /\ pc = "returned" /\ IsCredentialError(reply))

\* C2: a generate_music or generate_sound_effect call whose upstream
\* response has a status other than 200 returns success = false with an
\* error string embedding the HTTP status and no audio_base64 member.
C2_Non200IsFailureWithoutAudio ==
    (/\ pc = "returned"
     /\ upstream # PyNone
     /\ upstream.kind = "response"
     /\ upstream.response.status_code # 200
     /\ LastOp \in GenerationOps)
    => (/\ svcResult.success = FALSE
        /\ "error" \in DOMAIN svcResult
        /\ Embeds(svcResult.error, <<ToString(upstream.response.status_code)>>)
        /\ "audio_base64" \notin DOMAIN svcResult)

\* C2 witness: the REST generate_music got a 401 whose JSON body carries an
\* audio member.
C2_Witness ==
    /\ pc = "returned"
    /\ upstream # PyNone
    /\ upstream.kind = "response"
    /\ upstream.response.status_code = 401
    /\ upstream.response.body.kind = "object"
    /\ "audio" \in DOMAIN upstream.response.body.fields
    /\ service.impl = "rest"
    /\ LastOp = "generate_music"

\* C3: when the outbound HTTP call of any of the four client operations
\* raises a transport exception, the operation returns a result with
\* success = false that carries the exception text, and the caller gets that
\* result, not an exception.
C3_TransportFaultBecomesFailureResult ==
    (/\ pc = "returned"
     /\ upstream # PyNone
     /\ upstream.kind = "exception")
    => (/\ svcResult # PyNone
        /\ svcResult.success = FALSE
        /\ IF LastOp = "test_connection"
           THEN Embeds(svcResult.message, upstream.exc)
           ELSE svcResult.error = upstream.exc
        /\ call.facade = "rest" => reply = [status_code |-> 200, body |-> svcResult]
        /\ call.facade = "tools" => DOMAIN reply = {"content"})

\* C3 witness: POST /generate-sound whose upstream call timed out.
C3_Witness ==
    /\ pc = "returned"
    /\ upstream # PyNone
    /\ upstream.kind = "exception"
    /\ call.facade = "rest"
    /\ LastOp = "generate_sound_effect"
    /\ svcResult.error = <<"ReadTimeout">>

\* C4: every result of generate_music or generate_sound_effect, for every
\* upstream response, has exactly one of a non-empty audio_base64 and an
\* error message.
\* Fails: a 200 response with an empty body, or a JSON body without audio,
\* gives success with an empty audio_base64 and no error.
C4_ExactlyOneOfAudioOrError ==
    (/\ pc = "returned"
     /\ upstream # PyNone
     /\ upstream.kind = "response"
     /\ LastOp \in GenerationOps)
    => (HasAudio(svcResult) # HasError(svcResult))

\* C5: for every MCP generate_music call with requested duration d (absent,
\* 0 and negative included), the music_length_ms sent upstream is 1000 times
\* d clamped into [10, config.max_duration], and a success result echoes the
\* clamped seconds.
C5_McpMusicDurationIsClamped ==
    (/\ pc # "idle"
     /\ call.facade \in McpFacades
     /\ call.name = "generate_music"
     /\ sent # << >>)
    => LET s == ClampedSeconds(Get(call.arguments, "duration_seconds", PyNone))
       IN  /\ sent[1].json.music_length_ms = 1000 * s
           /\ s >= 10 /\ s <= config.max_duration
           /\ (pc = "returned" /\ svcResult.success)
                  => svcResult.duration_seconds = PyInt(s)

\* C5 witness: a negative duration was requested and the call succeeded
\* with the 10-second floor.
C5_Witness ==
    /\ pc = "returned"
    /\ call.facade \in McpFacades
    /\ call.name = "generate_music"
    /\ Get(call.arguments, "duration_seconds", PyNone) = PyInt(-1)
    /\ svcResult # PyNone
    /\ svcResult.success
    /\ svcResult.duration_seconds = PyInt(10)
    /\ sent[1].json.music_length_ms = 10000

\* C6: for every POST /generate-music accepted by body validation, the
\* music_length_ms sent upstream is 1000 * max(10, duration_seconds) and
\* never below 10000.
\* Fails: the REST generate_music sends duration_seconds * 1000 unclamped.
C6_RestMusicDurationHasFloor ==
    (/\ pc # "idle"
     /\ call.facade = "rest"
     /\ call.name = "/generate-music"
     /\ sent # << >>)
    => LET d == Get(call.arguments, "duration_seconds", PyInt(10)).v
       IN  /\ sent[1].json.music_length_ms = 1000 * Max(10, d)
           /\ sent[1].json.music_length_ms >= 10000

\* C7: the examples catalog is served without any credential on every
\* facade: get_music_examples with no key (and no configured default key)
\* through call_tool or handle_tool_call, and GET /examples, return the
\* catalog and make no upstream call.
\* Fails: call_tool constructs the service first; handle_tool_call passes an
\* argument to format_examples_response, which takes none.
C7_ExamplesServedWithoutCredential ==
    (/\ pc # "idle"
     /\ \/ call.facade = "rest" /\ call.name = "/examples"
        \/ /\ call.facade \in McpFacades
           /\ call.name = "get_music_examples"
           /\ CallLacksCredential
           /\ config.elevenlabs_api_key = << >>)
    => (/\ pc = "returned"
        /\ sent = << >>
        /\ IF call.facade = "rest"
           THEN reply.status_code = 200 /\ "examples" \in DOMAIN reply.body
           ELSE "content" \in DOMAIN reply /\ reply.content = FormatExamplesResponse)

\* C8: a tool name outside the catalog fails with an unknown-tool error
\* naming the tool, whatever the arguments (the name check comes before the
\* credential check), and no upstream call is made.
\* Fails: call_tool constructs the service, which checks the credential,
\* before it looks at the name.
C8_UnknownToolIsRejectedFirst ==
    (/\ pc # "idle"
     /\ call.facade \in McpFacades
     /\ call.name \notin ToolNames)
    => (sent = << >> /\ pc = "returned" /\ IsUnknownToolError(reply, call.name))

\* C9: generate_music or generate_sound_effect with a non-empty credential
\* but an absent or empty prompt gives a missing-required-field error and
\* no upstream call, through either dispatcher.
\* Fails: handle_tool_call passes the prompt on without looking at it.
C9_MissingPromptIsRejected ==
    (/\ pc # "idle"
     /\ call.facade \in McpFacades
     /\ call.name \in GenerationTools
     /\ ~CallLacksCredential
     /\ ~Truthy(Get(call.arguments, "prompt", PyNone)))
    => (sent = << >> /\ pc = "returned" /\ IsMissingPromptError(reply))

\* C10: for every failure-flagged generation result with error string e,
\* format_audio_response returns a single text content embedding e, so the
\* caller of a failed generate_music or generate_sound_effect tool call gets
\* a failure text containing the upstream error string.
\* Fails: format_audio_response has no failure branch and returns None.
C10_FailureTextEmbedsError ==
    (/\ pc = "returned"
     /\ call.facade \in McpFacades
     /\ svcResult # PyNone
     /\ LastOp \in GenerationOps
     /\ ~svcResult.success)
    => (/\ FormatAudioResponse(svcResult).t = "list"
        /\ "content" \in DOMAIN reply
        /\ reply.content.t = "list"
        /\ Len(reply.content.v) = 1
        /\ Embeds(reply.content.v[1].text, svcResult.error))

\* the upstream answer of the current call is a 200 response
Got200 ==
    /\ pc = "returned"
    /\ upstream # PyNone
    /\ upstream.kind = "response"
    /\ upstream.response.status_code = 200

\* C11: for every 200 response to generate_music whose body is a JSON
\* object with a string-valued audio member s (any string), the result is
\* success-flagged and its audio_base64 is s unchanged.
\* Fails: file_size is computed by base64.b64decode(s), which raises for a
\* string that is not valid base64; the except branch turns the 200 into a
\* failure result.
C11_AudioStringPassesUnchanged ==
    (/\ Got200
     /\ LastOp = "generate_music"
     /\ upstream.response.body.kind = "object"
     /\ "audio" \in DOMAIN upstream.response.body.fields
     /\ upstream.response.body.fields.audio.t = "str")
    => (/\ svcResult.success
        /\ "audio_base64" \in DOMAIN svcResult
        /\ svcResult.audio_base64 = upstream.response.body.fields.audio.v)

\* the 200 response of the current call carries its audio as raw bytes: a
\* sound-effect body, or a music body that does not parse as JSON
GotRawAudio ==
    /\ Got200
    /\ \/ LastOp = "generate_sound_effect"
       \/ LastOp = "generate_music" /\ upstream.response.body.kind = "raw"

\* C12: for every 200 response whose audio arrives as raw bytes b, the
\* result's audio_base64 is base64(b): 4 characters per 3 bytes, padded,
\* and decoding it gives exactly b back.
C12_RawAudioRoundTrips ==
    GotRawAudio
    => LET b == upstream.response.body.content
       IN  /\ svcResult.success
           /\ svcResult.audio_base64 = B64Encode(b)
           /\ Len(svcResult.audio_base64) = 4 * ((Len(b) + 2) \div 3)
           /\ B64Decode(svcResult.audio_base64) = [ok |-> TRUE, bytes |-> b]

\* C12 witness: a music body of MaxBytes raw bytes, not all equal, came
\* back encoded and file_size counts the decoded bytes.
C12_Witness ==
    /\ GotRawAudio
    /\ LastOp = "generate_music"
    /\ Len(upstream.response.body.content) = MaxBytes
    /\ upstream.response.body.content[1] # upstream.response.body.content[2]
    /\ svcResult.success
    /\ svcResult.file_size = MaxBytes
    /\ B64Decode(svcResult.audio_base64).bytes = upstream.response.body.content

\* the duration the caller gave, 5 when none was given
RequestedSoundDuration ==
    LET d == Get(call.arguments, "duration_seconds", PyNone)
    IN  IF d.t = "int" THEN d ELSE PyInt(5)

\* C13: for every generate_sound_effect call with prompt p and duration d
\* whose upstream response is 200 with body bytes b (any length, any
\* content), the result has success = true, file_size = len(b), mime_type
\* "audio/mpeg", prompt = p, duration_seconds = d (5 when d is absent) and
\* the whole body as its audio.
\* Fails: POST /generate-sound with "duration_seconds": null passes None on,
\* and the MCP client replaces a duration of 0 by 5.
C13_SoundEffectResultFields ==
    (/\ Got200
     /\ LastOp = "generate_sound_effect"
     /\ Truthy(Get(call.arguments, "prompt", PyNone)))
    => LET b == upstream.response.body.content
       IN  /\ svcResult.success
           /\ svcResult.file_size = Len(b)
           /\ svcResult.mime_type = <<"audio/mpeg">>
           /\ svcResult.prompt = call.arguments.prompt
           /\ svcResult.audio_base64 = B64Encode(b)
           /\ svcResult.duration_seconds = RequestedSoundDuration

\* the duration a sound-effect result echoes: the MCP client replaces an
\* absent, null or zero duration by 5; the REST facade replaces an absent
\* one by 5 and passes null on
EchoedSoundDuration ==
    IF "duration_seconds" \notin DOMAIN call.arguments THEN PyInt(5)
    ELSE IF call.facade = "rest" THEN call.arguments.duration_seconds
    ELSE Or(call.arguments.duration_seconds, PyInt(5))

\* C13 (amended): for every generate_sound_effect call with prompt p and
\* duration d whose upstream response is 200 with body bytes b, the result
\* has success = true, file_size = len(b), mime_type "audio/mpeg",
\* prompt = p, the whole body as its audio, and duration_seconds = d, except
\* that the MCP client echoes 5 for an absent, null or zero d and the REST
\* facade echoes 5 for an absent d and null for a null d.
C13_SoundEffectResultFieldsAmended ==
    (/\ Got200
     /\ LastOp = "generate_sound_effect"
     /\ Truthy(Get(call.arguments, "prompt", PyNone)))
    => LET b == upstream.response.body.content
       IN  /\ svcResult.success
           /\ svcResult.file_size = Len(b)
           /\ svcResult.mime_type = <<"audio/mpeg">>
           /\ svcResult.prompt = call.arguments.prompt
           /\ svcResult.audio_base64 = B64Encode(b)
           /\ svcResult.duration_seconds = EchoedSoundDuration

\* C13 witness: a sound effect asked for with duration 0 through an MCP
\* dispatcher came back with MaxBytes bytes and the default 5 seconds.
C13_Witness ==
    /\ Got200
    /\ LastOp = "generate_sound_effect"
    /\ call.facade \in McpFacades
    /\ Get(call.arguments, "prompt", PyNone) = PyStr(<<"p">>)
    /\ Get(call.arguments, "duration_seconds", PyNone) = PyInt(0)
    /\ Len(upstream.response.body.content) = MaxBytes
    /\ svcResult.file_size = MaxBytes
    /\ svcResult.duration_seconds = PyInt(5)

\* text.split("\n")
RECURSIVE SplitLines(_)
SplitLines(text) ==
    IF \A i \in 1..Len(text) : text[i] # "\n" THEN << text >>
    ELSE LET i == CHOOSE k \in 1..Len(text) :
                      text[k] = "\n" /\ \A j \in 1..(k - 1) : text[j] # "\n"
         IN  << SubSeq(text, 1, i - 1) >> \o SplitLines(SubSeq(text, i + 1, Len(text)))

IsHeaderLine(line) == line # << >> /\ line[1] = "["
IsContentLine(line) == line # << >> /\ line[1] # "["

\* the lines of all sections, in section order
RECURSIVE AllLines(_)
AllLines(sections) ==
    IF Len(sections) = 0 THEN << >>
    ELSE Get(Head(sections), "lines", << >>) \o AllLines(Tail(sections))

\* the bracketed name of every section
SectionHeaders(sections) ==
    [i \in 1..Len(sections) |-> <<"[">> \o sections[i].section_name \o <<"]">>]

HasLines(section) == Get(section, "lines", << >>) # << >>

\* a successful REST generate_music whose 200 body carries a composition
\* plan in which every section has a non-empty name
GotNamedSections ==
    /\ Got200
    /\ LastOp = "generate_music"
    /\ svcResult.success
    /\ "lyrics" \in DOMAIN svcResult
    /\ upstream.response.body.kind = "object"
    /\ "composition_plan" \in DOMAIN upstream.response.body.fields
    /\ LET sections == upstream.response.body.fields.composition_plan.sections
       IN  \A i \in 1..Len(sections) :
               Get(sections[i], "section_name", << >>) # << >>

\* C14: for every composition plan with N sections, each with a non-empty
\* name and M_i >= 0 lines, the extracted lyrics have exactly N bracketed
\* headers and exactly sum(M_i) content lines, in the original order.
\* Fails: a section without lines gets no header.
C14_LyricsHaveOneHeaderPerSection ==
    GotNamedSections
    => LET sections == upstream.response.body.fields.composition_plan.sections
           lines    == SplitLines(svcResult.lyrics)
       IN  /\ SelectSeq(lines, IsHeaderLine) = SectionHeaders(sections)
           /\ Len(SelectSeq(lines, IsHeaderLine)) = Len(sections)
           /\ SelectSeq(lines, IsContentLine) = AllLines(sections)

\* the lines the lyrics are made of: per section that has lines, its
\* header, its lines and a blank line
RECURSIVE LyricsBlocks(_)
LyricsBlocks(sections) ==
    IF Len(sections) = 0 THEN << >>
    ELSE (IF HasLines(Head(sections))
          THEN SectionHeaders(<< Head(sections) >>) \o Head(sections).lines
               \o << << >> >>
          ELSE << >>)
         \o LyricsBlocks(Tail(sections))

\* C14 (amended): for every composition plan with N sections, each with a
\* non-empty name and M_i >= 0 lines, the extracted lyrics have one
\* bracketed header per section that has at least one line (a section
\* without lines contributes nothing) and exactly sum(M_i) content lines,
\* in the original section and line order, each such section being its
\* header, its lines and a blank line.
C14_LyricsHaveOneHeaderPerSectionWithLines ==
    GotNamedSections
    => LET sections == upstream.response.body.fields.composition_plan.sections
           lines    == SplitLines(svcResult.lyrics)
       IN  /\ SelectSeq(lines, IsHeaderLine)
                  = SectionHeaders(SelectSeq(sections, HasLines))
           /\ SelectSeq(lines, IsContentLine) = AllLines(sections)
           /\ Len(SelectSeq(lines, IsContentLine)) = Len(AllLines(sections))
           /\ lines = LyricsBlocks(sections) \o << << >> >>

\* C14 witness: a plan of three named sections, the middle one without
\* lines, gave lyrics with two headers and three content lines.
C14_Witness ==
    /\ GotNamedSections
    /\ Len(upstream.response.body.fields.composition_plan.sections) = 3
    /\ ~HasLines(upstream.response.body.fields.composition_plan.sections[2])
    /\ Len(SelectSeq(SplitLines(svcResult.lyrics), IsHeaderLine)) = 2
    /\ Len(SelectSeq(SplitLines(svcResult.lyrics), IsContentLine)) = 3

\* the names of a tool list
CatalogNames(tools) == {tools[i].name : i \in 1..Len(tools)}

\* the elements of a sequence
Range(seq) == {seq[i] : i \in 1..Len(seq)}

\* the required fields the catalog is to declare
DeclaredRequired(name) ==
    CASE name \in {"generate_music", "generate_sound_effect"} ->
            {"prompt", "elevenlabs_api_key"}
      [] name \in {"test_elevenlabs_connection", "get_available_models"} ->
            {"elevenlabs_api_key"}
      [] OTHER -> {}

\* C15: every tools/list returns the same 5 tools with pairwise distinct
\* names (generate_music, generate_sound_effect, test_elevenlabs_connection,
\* get_available_models, get_music_examples), each with its declared
\* required fields, whatever tool calls came before; and a call of a
\* catalog name is never answered as an unknown tool.
C15_ToolCatalogIsFixed ==
    /\ (pc = "returned" /\ call.facade = "list_tools")
         => (/\ Len(reply.tools) = 5
             /\ \A i, j \in 1..Len(reply.tools) :
                    reply.tools[i].name = reply.tools[j].name => i = j
             /\ CatalogNames(reply.tools)
                    = {"generate_music", "generate_sound_effect",
                       "test_elevenlabs_connection", "get_available_models",
                       "get_music_examples"}
             /\ \A i \in 1..Len(reply.tools) :
                    /\ Range(reply.tools[i].required)
                           = DeclaredRequired(reply.tools[i].name)
                    /\ Range(reply.tools[i].required)
                           \subseteq reply.tools[i].properties)
    /\ (pc # "idle" /\ call.facade \in McpFacades)
         => (/\ call.name \in CatalogNames(GetToolDefinitions)
                    <=> call.name \in ToolNames
             /\ (pc = "returned" /\ call.name \in CatalogNames(GetToolDefinitions))
                    => ~IsUnknownToolError(reply, call.name))

\* C15 witness: a tools/list has returned its five tools.
C15_Witness ==
    /\ pc = "returned"
    /\ call.facade = "list_tools"
    /\ Len(reply.tools) = 5
    /\ reply.tools[5].name = "get_music_examples"

\* a member of a request body is an integer outside lo..hi
IntOutside(body, key, lo, hi) ==
    /\ key \in DOMAIN body
    /\ body[key].t = "int"
    /\ (body[key].v < lo \/ body[key].v > hi)

\* the prompt of a request body is a string whose length is outside 1..hi
PromptLengthOutside(body, hi) ==
    /\ "prompt" \in DOMAIN body
    /\ body.prompt.t = "str"
    /\ (Len(body.prompt.v) < 1 \/ Len(body.prompt.v) > hi)

\* the body of a request to one of the four POST endpoints violates a
\* declared bound
ViolatesDeclaredBound(path, body) ==
    \/ ~Truthy(Get(body, "elevenlabs_api_key", PyNone))
    \/ /\ path = "/generate-music"
       /\ \/ PromptLengthOutside(body, 1000)
          \/ IntOutside(body, "duration_seconds", 1, 30)
          \/ IntOutside(body, "prompt_influence", 0, 100)
    \/ /\ path = "/generate-sound"
       /\ \/ PromptLengthOutside(body, 500)
          \/ IntOutside(body, "duration_seconds", 1, 15)

\* C16: on the REST facade, a request to /generate-music, /generate-sound,
\* /test-connection or /models whose body violates a declared bound (prompt
\* length, duration, prompt_influence, absent or empty elevenlabs_api_key)
\* is answered with a 4xx response and causes no upstream HTTP call.
C16_InvalidRestBodyIsRejected ==
    (/\ pc # "idle"
     /\ call.facade = "rest"
     /\ call.name \in {"/generate-music", "/generate-sound",
                       "/test-connection", "/models"}
     /\ ViolatesDeclaredBound(call.name, call.arguments))
    => (/\ pc = "returned"
        /\ sent = << >>
        /\ upstream = PyNone
        /\ reply.status_code >= 400
        /\ reply.status_code <= 499)

\* C16 witness: a POST /generate-music whose only fault is a duration one
\* above the bound was answered 422.
C16_Witness ==
    /\ pc = "returned"
    /\ call.facade = "rest"
    /\ call.name = "/generate-music"
    /\ Get(call.arguments, "elevenlabs_api_key", PyNone) = PyStr(<<"user-key">>)
    /\ "prompt" \in DOMAIN call.arguments
    /\ Len(call.arguments.prompt.v) = 1000
    /\ "prompt_influence" \notin DOMAIN call.arguments
    /\ Get(call.arguments, "duration_seconds", PyNone) = PyInt(31)
    /\ sent = << >>
    /\ reply.status_code = 422

\* C17: one invocation of test_connection, generate_music,
\* generate_sound_effect or get_available_models, and so one inbound tool
\* call or REST request, issues at most one outbound HTTP request whatever
\* its outcome: the request is issued when the call suspends, and a call
\* that has its outcome (200, non-200 or transport exception) has issued
\* exactly that one.
C17_AtMostOneUpstreamRequest ==
    /\ Len(sent) <= 1
    /\ pc = "idle" => sent = << >>
    /\ pc = "awaiting" => (sent = << pending >> /\ upstream = PyNone)
    /\ (pc = "returned" /\ upstream # PyNone) => Len(sent) = 1
    /\ (pc = "returned" /\ upstream = PyNone) => sent = << >>

\* C17 witness: a get_available_models call whose request got a 500 has
\* returned with that single request issued.
C17_Witness ==
    /\ pc = "returned"
    /\ upstream # PyNone
    /\ upstream.kind = "response"
    /\ upstream.response.status_code = 500
    /\ Len(sent) = 1
    /\ sent[1].op = "get_available_models"
    /\ ~svcResult.success

IsInitializeResult(e) == "result" \in DOMAIN e /\ e.result = InitializeResult
IsToolsListResult(e) == "result" \in DOMAIN e /\ e.result = ToolsListResult
IsPing(e) == "method" \in DOMAIN e /\ e.method = "ping"
IsErrorEnvelope(e) == "error" \in DOMAIN e

\* the order of the connection states
SseRank(state) ==
    CASE state = "NoConnection" -> 0
      [] state = "Connected"    -> 1
      [] state = "Initialized"  -> 2
      [] state = "Serving"      -> 3
      [] OTHER                  -> 4

\* C18: on every event-stream connection the first event is an
\* initialize-result envelope, the second a tools/list-result envelope, and
\* every later event is a ping notification, or a single terminal error
\* envelope; no ping comes before both initial envelopes, and the connection
\* moves only forward through Connected, Initialized, Serving, Closed.
C18_StreamEventOrder ==
    /\ [](/\ Len(sseEvents) >= 1 => IsInitializeResult(sseEvents[1])
          /\ Len(sseEvents) >= 2 => IsToolsListResult(sseEvents[2])
          /\ \A i \in 3..Len(sseEvents) :
                \/ IsPing(sseEvents[i])
                \/ /\ IsErrorEnvelope(sseEvents[i])
                   /\ i = Len(sseEvents)
                   /\ sseState = "Closed"
          /\ sseState \in {"NoConnection", "Connected"} => sseEvents = << >>
          /\ sseState = "Initialized" => Len(sseEvents) = 1
          /\ sseState = "Serving" => Len(sseEvents) >= 2)
    /\ [][/\ SseRank(sseState') >= SseRank(sseState)
          /\ SseRank(sseState') <= SseRank(sseState) + 1]_vars

\* C18 witness: a stream that has emitted both initial envelopes and two
\* pings one interval apart was ended by a fault.
C18_Witness ==
    /\ sseState = "Closed"
    /\ Len(sseEvents) = 5
    /\ IsInitializeResult(sseEvents[1])
    /\ IsToolsListResult(sseEvents[2])
    /\ IsPing(sseEvents[3])
    /\ IsPing(sseEvents[4])
    /\ sseEvents[4].params.timestamp = sseEvents[3].params.timestamp + 30
    /\ IsErrorEnvelope(sseEvents[5])

\* the error envelopes among the events
ErrorEvents == SelectSeq(sseEvents, IsErrorEnvelope)

\* C19: once the liveness check (made before each ping) finds the peer
\* gone, the loop is left and nothing more is emitted on the connection:
\* no ping is ever sent to a peer that has gone, the step that detects it
\* closes the stream without output, and a closed stream stays closed and
\* silent; a fault during the loop ends the stream after exactly one error
\* envelope.
C19_SilentAfterDisconnect ==
    /\ [][(~peerConnected /\ sseEvents' # sseEvents)
              => ~IsPing(sseEvents'[Len(sseEvents')])]_vars
    /\ [][(/\ sseState = "Serving" /\ sseLoop = "send" /\ ~peerConnected
           /\ <<sseState, sseLoop, sseEvents>>' # <<sseState, sseLoop, sseEvents>>)
              => /\ sseState' = "Closed"
                 /\ \/ sseEvents' = sseEvents
                    \/ /\ Len(sseEvents') = Len(sseEvents) + 1
                       /\ IsErrorEnvelope(sseEvents'[Len(sseEvents')])]_vars
    /\ [][sseState = "Closed"
              => (sseState' = "Closed" /\ sseEvents' = sseEvents)]_vars
    /\ [](/\ Len(ErrorEvents) <= 1
          /\ Len(ErrorEvents) = 1
                => (/\ sseState = "Closed"
                    /\ IsErrorEnvelope(sseEvents[Len(sseEvents)])))

\* C19 witness: the peer went away during a sleep; the next liveness check
\* closed the stream, whose last event is the ping sent before the sleep.
C19_Witness ==
    /\ sseState = "Closed"
    /\ ~peerConnected
    /\ Len(sseEvents) = 3
    /\ IsPing(sseEvents[3])
    /\ now = sseEvents[3].params.timestamp + 30
    /\ ErrorEvents = << >>

\* C20: on the one-shot transport every envelope is answered by what it
\* holds alone, whatever envelopes were handled before: a method other than
\* initialize, tools/list and tools/call gives an error envelope with code
\* -32601, a processing fault gives an error envelope with code -32603
\* carrying the exception text, initialize and tools/list give their
\* results, and every response echoes the request id of its envelope.
C20_OneShotEnvelopes ==
    (pc = "returned" /\ call.facade = "rpc")
    => /\ reply.id = (IF "id" \in DOMAIN call.arguments
                      THEN call.arguments.id ELSE PyNone)
       /\ call.fault # PyNone
             => (/\ "error" \in DOMAIN reply
                 /\ reply.error.code = -32603
                 /\ Embeds(reply.error.message, call.fault.v))
       /\ (call.fault = PyNone
             /\ call.name \notin {"initialize", "tools/list", "tools/call"})
             => ("error" \in DOMAIN reply /\ reply.error.code = -32601)
       /\ (call.fault = PyNone /\ call.name = "initialize")
             => IsInitializeResult(reply)
       /\ (call.fault = PyNone /\ call.name = "tools/list")
             => (IsToolsListResult(reply) /\ Len(reply.result.tools) = 5)

\* C20 witness: a tools/list with id "req-2" was answered with the catalog
\* although no initialize came before it, only a method that is not
\* supported.
C20_Witness ==
    /\ pc = "returned"
    /\ call.facade = "rpc"
    /\ call.name = "tools/list"
    /\ call.fault = PyNone
    /\ rpcSeen = {"resources/list", "tools/list"}
    /\ IsToolsListResult(reply)
    /\ reply.id = PyStr(<<"req-2">>)

\* C22: a call made with a caller-supplied non-empty credential k issues
\* every upstream request with k as its xi-api-key header, never with the
\* configured default key; k is held only in the service instance of the
\* call, which is gone once the call is over, and the process-wide
\* configuration is never written.
C22_CallerCredentialIsForwarded ==
    /\ []((pc # "idle" /\ ~CallLacksCredential)
            => /\ \A i \in 1..Len(sent) :
                      sent[i].headers.xi_api_key = call.arguments.elevenlabs_api_key
               /\ service # PyNone
                      => service.api_key = call.arguments.elevenlabs_api_key)
    /\ [](pc = "idle" => (service = PyNone /\ sent = << >>))
    /\ [](config.elevenlabs_api_key \in ConfigKeys)
    /\ [][config' = config]_vars

\* C22 witness: with a default key configured, a call_tool of generate_music
\* carrying its own key has returned after a 200 response to a request that
\* carried the caller's key.
C22_Witness ==
    /\ pc = "returned"
    /\ call.facade = "server"
    /\ call.name = "generate_music"
    /\ config.elevenlabs_api_key = <<"cfgkey">>
    /\ Get(call.arguments, "elevenlabs_api_key", PyNone) = PyStr(<<"user-key">>)
    /\ Len(sent) = 1
    /\ sent[1].headers.xi_api_key = PyStr(<<"user-key">>)
    /\ upstream # PyNone
    /\ upstream.kind = "response"
    /\ upstream.response.status_code = 200

\* a get_available_models call has its upstream response
GotModelsResponse ==
    /\ pc = "returned"
    /\ upstream # PyNone
    /\ upstream.kind = "response"
    /\ LastOp = "get_available_models"

\* the models a 200 body stands for: the list itself, or the "models" member
\* of an object, the empty list when the object has none
ClaimedModels(body) ==
    IF body.kind = "array" THEN PyList(body.items)
    ELSE Get(body.fields, "models", PyList(<< >>))

\* the 200 bodies that hold a models list: a JSON list, or a JSON object
\* whose "models" member is absent or is a list
HoldsModelsList(body) ==
    \/ body.kind = "array"
    \/ /\ body.kind = "object"
       /\ Get(body.fields, "models", PyList(<< >>)).t = "list"

HintNames == {"genre", "mood", "tempo", "instruments"}

\* the hints of the current call that are given and non-empty
NonEmptyHints ==
    {k \in HintNames : k \in DOMAIN call.arguments /\ Truthy(call.arguments[k])}

\* the current call asks for composition mode
CompositionModeOn ==
    Truthy(Get(call.arguments, "composition_mode", PyBool(FALSE)))

\* C24: the body of the upstream request of a REST generate_music holds a
\* style_settings block if and only if composition_mode is true and at least
\* one of genre, mood, tempo, instruments is non-empty; the block holds
\* exactly the non-empty hints with their given values; when composition_mode
\* is false the body holds only prompt and music_length_ms, whatever hints
\* were supplied.
C24_StyleSettingsBlock ==
    (/\ pc # "idle"
     /\ call.facade = "rest"
     /\ call.name = "/generate-music"
     /\ sent # << >>)
    => LET body == sent[1].json
       IN  /\ ("style_settings" \in DOMAIN body)
                <=> (CompositionModeOn /\ NonEmptyHints # {})
           /\ "style_settings" \in DOMAIN body
                => (/\ DOMAIN body.style_settings = NonEmptyHints
                    /\ \A k \in NonEmptyHints :
                          body.style_settings[k] = call.arguments[k])
           /\ ~CompositionModeOn => DOMAIN body = {"prompt", "music_length_ms"}
           /\ body.prompt = call.arguments.prompt

\* C24 witness: a composition-mode request with an empty genre and
\* instrument list, mood "calm" and tempo "slow" was sent upstream with a
\* style block of exactly mood and tempo.
C24_Witness ==
    /\ pc = "awaiting"
    /\ call.facade = "rest"
    /\ call.name = "/generate-music"
    /\ CompositionModeOn
    /\ Get(call.arguments, "genre", PyNone) = PyStr(<< >>)
    /\ Get(call.arguments, "instruments", PyNone) = PyList(<< >>)
    /\ Len(sent) = 1
    /\ "style_settings" \in DOMAIN sent[1].json
    /\ sent[1].json.style_settings =
          [mood |-> PyStr(<<"calm">>), tempo |-> PyStr(<<"slow">>)]

\* the service operation of the current call has its upstream response
GotResponse ==
    /\ pc = "returned"
    /\ upstream # PyNone
    /\ upstream.kind = "response"

\* r is a result record with a boolean success member, not a raised exception
IsResultRecord(r) ==
    /\ "success" \in DOMAIN r
    /\ r.success \in BOOLEAN
    /\ "ok" \notin DOMAIN r

\* C25: for every upstream response to test_connection, generate_music,
\* generate_sound_effect or get_available_models (any status; any 200 body:
\* bytes that are not JSON, a JSON object, array or scalar, an object whose
\* audio member is of any JSON type or a string that is not valid base64)
\* the operation returns a result record with a boolean success member and
\* raises nothing to its caller.
C25_EveryResponseGivesAResultRecord ==
    GotResponse
    => /\ LastOp \in {"test_connection", "generate_music",
                       "generate_sound_effect", "get_available_models"}
       /\ IsResultRecord(svcResult)

\* C25 witness: a generate_music call got a 200 whose body is the JSON
\* scalar null and returned a failure record.
C25_Witness ==
    /\ GotResponse
    /\ LastOp = "generate_music"
    /\ upstream.response.status_code = 200
    /\ upstream.response.body.kind = "scalar"
    /\ upstream.response.body.value = PyNone
    /\ IsResultRecord(svcResult)
    /\ ~svcResult.success
    /\ svcResult.error # << >>

\* v is a non-empty list of text contents
IsTextContentList(v) ==
    /\ v.t = "list"
    /\ Len(v.v) >= 1
    /\ \A i \in 1..Len(v.v) : v.v[i].type = "text" /\ v.v[i].text # << >>

\* C26: handle_tool_call, for every tool name, every arguments dictionary
\* and every outcome of the upstream call, never raises and returns a
\* dictionary with exactly one of the keys "content" and "error"; a "content"
\* is a non-empty list of text contents; a call that cannot be served (a
\* name outside the catalog, a missing credential) is answered with "error"
\* and a non-empty message.
\* Fails: format_audio_response returns a list only when the result is a
\* success, so a failed generation is answered with "content" holding None.
C26_HandleToolCallReplyShape ==
    (pc = "returned" /\ call.facade = "tools")
    => /\ "ok" \notin DOMAIN reply
       /\ DOMAIN reply \in {{"content"}, {"error"}}
       /\ "content" \in DOMAIN reply => IsTextContentList(reply.content)
       /\ "error" \in DOMAIN reply => reply.error # << >>
       /\ (\/ call.name \notin ToolNames
           \/ call.name \in CredentialTools /\ CallLacksCredential)
             => "error" \in DOMAIN reply

\* C27: start-up in main(): the serve loop (server.run) is entered only
\* after the configuration validation has completed without error; with a
\* non-empty configured default credential the validation succeeds and main()
\* goes on to server.run, whatever the start-up connection test gives; with
\* an empty configured credential main() returns without serving.
\* Fails: the validation reads config.valid_api_keys, which MCPServerConfig
\* does not define, so with a non-empty credential it ends in an
\* AttributeError and main() returns without serving.
C27_StartUpReachesServeLoop ==
    (pc = "returned" /\ call.facade = "main")
    => /\ reply.serving => reply.validated
       /\ config.elevenlabs_api_key # << >> => (reply.validated /\ reply.serving)
       /\ config.elevenlabs_api_key = << >> => ~reply.serving

\* the credential call c is entitled to: its own key, or the configured
\* default key when it carries none
OwnCredential(c) ==
    LET k == Get(c.arguments, "elevenlabs_api_key", PyNone)
    IN  IF Truthy(k) THEN k ELSE PyStr(config.elevenlabs_api_key)

\* the reply call c gets when it is handled alone and its request, if it
\* makes one, has the given outcome
SequentialReply(c, outcome) ==
    LET step == EntryStep(c)
    IN  IF step.kind = "done" THEN step.reply
        ELSE FacadeReply(c, step.request.op,
                         ServiceResult(step.service, step.request, outcome))

\* C21: in every interleaving of concurrently handled requests, each
\* suspended only at its own HTTP call, the result of a request depends only
\* on its own arguments and its own upstream response; no request reads or
\* writes state written by another (a step changes the state of one request
\* only, and the shared configuration is never written); the credential of
\* one request is never used for the upstream call of another; and a request
\* suspended on its upstream call keeps no other request from going on: a
\* suspended request can be resumed, a resumed one can return and a new one
\* can begin, whatever the others are doing.
C21_ConcurrentRequestsAreIsolated ==
    /\ [](\A i \in Slots :
            /\ tasks[i].pc # "idle"
                 => /\ Len(tasks[i].sent) <= 1
                    /\ \A k \in 1..Len(tasks[i].sent) :
                          tasks[i].sent[k].headers.xi_api_key
                              = OwnCredential(tasks[i].call)
                    /\ tasks[i].service # PyNone
                          => tasks[i].service.api_key = OwnCredential(tasks[i].call)
            /\ tasks[i].pc = "returned"
                 => tasks[i].reply = SequentialReply(tasks[i].call, tasks[i].upstream)
            /\ tasks[i].pc = "awaiting"
                 => ENABLED (\E outcome \in ConcOutcomes : ConcResume(i, outcome))
            /\ tasks[i].pc = "returned" => ENABLED ConcFinish(i)
            /\ (tasks[i].pc = "idle" /\ started < MaxRequests)
                 => \A c \in ConcCalls : ENABLED ConcBegin(i, c))
    /\ [][\A i, j \in Slots :
             i # j => (tasks'[i] = tasks[i] \/ tasks'[j] = tasks[j])]_vars
    /\ [][config' = config]_vars

\* C21 witness: a request with the key "other-key" began after a request
\* with the key "user-key", which is still suspended on its upstream call,
\* and has completed with its own response; each request was sent with its
\* own key.
C21_Witness ==
    \E i, j \in Slots :
        /\ tasks[i].pc = "awaiting"
        /\ tasks[j].pc = "returned"
        /\ tasks[j].seq > tasks[i].seq
        /\ tasks[j].upstream # PyNone
        /\ tasks[i].sent[1].headers.xi_api_key = PyStr(<<"user-key">>)
        /\ Len(tasks[j].sent) = 1
        /\ tasks[j].sent[1].headers.xi_api_key = PyStr(<<"other-key">>)
        /\ tasks[j].reply = SequentialReply(tasks[j].call, tasks[j].upstream)

=============================================================================
